---- MODULE Spec2Model ----
(***************************************************************************)
(* State-machine model of the password manager (Fozzyack/password-charm).  *)
(*                                                                         *)
(* Strings are sequences of one-character strings, so that len(), the      *)
(* CharLimit of a text input, strings.TrimSpace and the filename codec are *)
(* computed as the Go code computes them.                                  *)
(*                                                                         *)
(* The store is the map `files` from a path below ~/.password-manager-store *)
(* to the blob stored there.  A blob written by the gopenpgp password       *)
(* encryption is the symbolic ciphertext [intact, key, plain]: it decrypts  *)
(* exactly under the password it was encrypted with.  A write that failed   *)
(* after os.WriteFile truncated the file leaves a blob that is not intact   *)
(* and decrypts under no password.                                          *)
(***************************************************************************)
EXTENDS Integers, Sequences, FiniteSets, TLC

VARIABLES
  files,       \* the store on disk: path -> blob
  Password,    \* PasswordFolder.Password
  InitCheck,   \* PasswordFolder.InitCheck
  Dirs,        \* PasswordFolder.Dirs, the directory listing snapshot
  LoggedIn,    \* Options.LoggedIn
  Quit,        \* Options.Quit
  ErrorMessage,\* Options.ErrorMessage
  pc,          \* position of the single thread of control
  entries,     \* ListAllPasswords: the entries the list shows
  selected,    \* ListAllPasswords: the entry picked from the list
  now,         \* the wall clock, in seconds
  last,        \* the most recent operation: its input, what it returned
               \* and what it printed for the user
  failed,      \* the failed login attempts since the process started
               \* (counted up to MaxFailed)
  boot,        \* the bootstrap that sealed the ValidationRecord, if any
  rot          \* the most recent successful ChangeMasterPassword, if any

vars == <<files, Password, InitCheck, Dirs, LoggedIn, Quit, ErrorMessage, pc, entries,
          selected, now, last, failed, boot, rot>>

-----------------------------------------------------------------------------
(* Bounds of the model *)

\* the clock runs over 0..MaxTime
MaxTime == 1
\* at most MaxFiles record files are kept in the store root
MaxFiles == 2
\* failed login attempts are counted up to MaxFailed
MaxFailed == 2

-----------------------------------------------------------------------------
(* Strings *)

Rep(c, n) == [i \in 1..n |-> c]

EmptyString == << >>

HasPrefix(s, p) == Len(s) >= Len(p) /\ SubSeq(s, 1, Len(p)) = p

HasSuffix(s, x) ==
  Len(s) >= Len(x) /\ SubSeq(s, Len(s) - Len(x) + 1, Len(s)) = x

TrimSuffix(s, x) == IF HasSuffix(s, x) THEN SubSeq(s, 1, Len(s) - Len(x)) ELSE s

Contains(s, x) ==
  \E i \in 1..(Len(s) - Len(x) + 1) : SubSeq(s, i, i + Len(x) - 1) = x

WhiteSpace == {" ", "\t", "\n", "\r"}

\* strings.TrimSpace
TrimSpace(s) ==
  IF \A i \in 1..Len(s) : s[i] \in WhiteSpace THEN EmptyString
  ELSE LET lo == CHOOSE i \in 1..Len(s) :
                   s[i] \notin WhiteSpace /\ \A j \in 1..(i - 1) : s[j] \in WhiteSpace
           hi == CHOOSE i \in 1..Len(s) :
                   s[i] \notin WhiteSpace /\ \A j \in (i + 1)..Len(s) : s[j] \in WhiteSpace
       IN  SubSeq(s, lo, hi)

\* the value a bubbles text input holds after the user typed `typed`:
\* characters beyond CharLimit are not accepted
TextInputValue(typed, limit) ==
  IF Len(typed) > limit THEN SubSeq(typed, 1, limit) ELSE typed

GpgExt == <<".", "g", "p", "g">>
CheckerDir == <<".", "c", "h", "e", "c", "k", "e", "r">>
InitName == <<"i", "n", "i", "t">>
\* the fileName ".checker/init" handed to the encryption functions
CheckerInit == CheckerDir \o <<"/">> \o InitName
InitGpg == InitName \o GpgExt

\* fileio: fmt.Sprintf("%s/%s.gpg", pf.FolderLocation, fileName), relative
\* to the store root
FilePath(fileName) == fileName \o GpgExt

-----------------------------------------------------------------------------
(* utils: the filename codec *)

LowerChars == <<"a","b","c","d","e","f","g","h","i","j","k","l","m",
                "n","o","p","q","r","s","t","u","v","w","x","y","z">>
UpperChars == <<"A","B","C","D","E","F","G","H","I","J","K","L","M",
                "N","O","P","Q","R","S","T","U","V","W","X","Y","Z">>
DigitChars == <<"0","1","2","3","4","5","6","7","8","9">>

Range(f) == {f[i] : i \in DOMAIN f}

\* the characters the regexp [^a-zA-Z0-9\-_] of GenerateFilename leaves alone
FilenameChars ==
  Range(LowerChars) \cup Range(UpperChars) \cup Range(DigitChars) \cup {"-", "_"}

\* the characters the regexp [\x00-\x1F\x7F] of SanitizeInput removes
\* ("BEL" stands for the one character \x07)
ControlChars == {"\t", "\n", "\r", "BEL"}

ToLowerChar(c) ==
  IF c \in Range(UpperChars)
  THEN LowerChars[CHOOSE i \in DOMAIN UpperChars : UpperChars[i] = c]
  ELSE c

ToLower(s) == [i \in 1..Len(s) |-> ToLowerChar(s[i])]

\* strings.ReplaceAll for a one-character `old`
ReplaceAll(s, old, new) == [i \in 1..Len(s) |-> IF s[i] = old THEN new ELSE s[i]]

\* SanitizeInput: drop control characters, then strings.TrimSpace
SanitizeInput(input) == TrimSpace(SelectSeq(input, LAMBDA c : c \notin ControlChars))

MaxCleanName == 20

\* time.Time.Format("20060102_150405") of the instant `t` seconds after
\* 2026-01-01 00:00:00
Timestamp(t) ==
  <<"2","0","2","6","0","1","0","1","_","0","0","0","0">>
    \o <<DigitChars[((t \div 10) % 10) + 1], DigitChars[(t % 10) + 1]>>

\* GenerateFilename without the replacement of the characters outside
\* [a-zA-Z0-9_-]
GenerateFilename_KeepsLabel(siteName, t) ==
  LET lowered   == ToLower(siteName)
      cleanName == IF Len(lowered) > MaxCleanName
                   THEN SubSeq(lowered, 1, MaxCleanName) ELSE lowered
  IN  cleanName \o <<"_">> \o Timestamp(t)

\* GenerateFilename, with time.Now() passed in as `t`
GenerateFilename(siteName, t) ==
  LET replaced  == [i \in 1..Len(siteName) |->
                      IF siteName[i] \in FilenameChars THEN siteName[i] ELSE "_"]
      lowered   == ToLower(replaced)
      cleanName == IF Len(lowered) > MaxCleanName
                   THEN SubSeq(lowered, 1, MaxCleanName) ELSE lowered
  IN  cleanName \o <<"_">> \o Timestamp(t)

-----------------------------------------------------------------------------
(* encryption: Data, JSON and the password-based cipher *)

\* a time.Time: the wall-clock second and whether the value still carries
\* the monotonic clock reading of time.Now()
TimeNow(t) == [sec |-> t, mono |-> TRUE]
ZeroTime == [sec |-> -1, mono |-> FALSE]

\* the zero value Data{}
ZeroData == [Password |-> EmptyString, Username |-> EmptyString,
             Email |-> EmptyString, URL |-> EmptyString,
             CreatedAt |-> ZeroTime, UpdatedAt |-> ZeroTime]

\* json.Marshal of a Data whose URL field carries the tag `json:"-"`: the
\* URL is not written
JsonMarshal_DropsURL(data) ==
  [valid |-> TRUE,
   doc   |-> [data EXCEPT !.URL = EmptyString, !.CreatedAt = @.sec,
                          !.UpdatedAt = @.sec]]

\* json.Marshal(data): the time fields are written as RFC 3339 text, which
\* has no monotonic clock reading
JsonMarshal(data) ==
  [valid |-> TRUE,
   doc   |-> [data EXCEPT !.CreatedAt = @.sec, !.UpdatedAt = @.sec]]

\* json.Unmarshal(bytes, &data) into a zero Data; the error is discarded
\* (encryption.go:106), so bytes that are no JSON leave the zero value
JsonUnmarshal(bytes) ==
  IF bytes.valid
  THEN [bytes.doc EXCEPT !.CreatedAt = [sec |-> @, mono |-> FALSE],
                         !.UpdatedAt = [sec |-> @, mono |-> FALSE]]
  ELSE ZeroData

\* encHandle.Encrypt + ArmorBytes: the armored ciphertext of `plain` under
\* `password`
Encrypt(plain, password) == [intact |-> TRUE, key |-> password, plain |-> plain]

\* what os.WriteFile leaves behind when the write fails after the file was
\* opened with O_TRUNC: a truncated file, no valid armored message
PartialBlob == [intact |-> FALSE, key |-> EmptyString,
                plain |-> [valid |-> FALSE, doc |-> JsonMarshal(ZeroData).doc]]

\* decHandler.Decrypt(fileData, crypto.Armor) succeeds
CanDecrypt(blob, password) == blob.intact /\ blob.key = password

-----------------------------------------------------------------------------
(* fileio: the store *)

\* f with path p set to blob b
Put(fs, p, b) == [q \in DOMAIN fs \cup {p} |-> IF q = p THEN b ELSE fs[q]]

\* f without path p
Remove(fs, p) == [q \in DOMAIN fs \ {p} |-> fs[q]]

\* outcomes of os.WriteFile: written; failed before the file was opened
\* (nothing changed); failed after the file was truncated
WriteOutcomes == {"ok", "fail_open", "fail_partial"}

\* outcomes of os.ReadFile on a file that exists
ReadOutcomes == {"ok", "fail"}

\* PasswordFolder.WriteToFile opening the file with O_EXCL: a file that
\* exists is not overwritten
WriteToFile_NoOverwrite(fs, fileName, input, wo) ==
  CASE FilePath(fileName) \in DOMAIN fs -> [err |-> "write", fs |-> fs]
    [] wo = "ok"           -> [err |-> "nil",   fs |-> Put(fs, FilePath(fileName), input)]
    [] wo = "fail_open"    -> [err |-> "write", fs |-> fs]
    [] wo = "fail_partial" -> [err |-> "write", fs |-> Put(fs, FilePath(fileName), PartialBlob)]

\* PasswordFolder.WriteToFile: [err, fs]
WriteToFile(fs, fileName, input, wo) ==
  CASE wo = "ok"           -> [err |-> "nil",   fs |-> Put(fs, FilePath(fileName), input)]
    [] wo = "fail_open"    -> [err |-> "write", fs |-> fs]
    [] wo = "fail_partial" -> [err |-> "write", fs |-> Put(fs, FilePath(fileName), PartialBlob)]

\* PasswordFolder.ReadFromFile: [err, data]
ReadFromFile(fs, fileName, ro) ==
  IF FilePath(fileName) \notin DOMAIN fs THEN [err |-> "ENOENT", data |-> PartialBlob]
  ELSE IF ro = "fail" THEN [err |-> "EIO", data |-> PartialBlob]
  ELSE [err |-> "nil", data |-> fs[FilePath(fileName)]]

\* FileExists
FileExists(fs, path) == path \in DOMAIN fs

\* PasswordFolder.DeleteFile without the check that the file exists:
\* deleting a missing file reports no error
DeleteFile_NoExistCheck(fs, fileName, rm) ==
  IF rm # "ok" THEN [err |-> "remove", fs |-> fs]
  ELSE [err |-> "nil", fs |-> Remove(fs, FilePath(fileName))]

\* PasswordFolder.DeleteFile, `rm` the outcome of os.Remove: [err, fs]
DeleteFile(fs, fileName, rm) ==
  IF ~FileExists(fs, FilePath(fileName))
  THEN [err |-> "not_exist", fs |-> fs]
  ELSE IF rm # "ok" THEN [err |-> "remove", fs |-> fs]
  ELSE [err |-> "nil", fs |-> Remove(fs, FilePath(fileName))]

\* EncryptionFunctions.EncryptPasswordAndWriteToFile under the session
\* password `password`: [err, fs]
EncryptPasswordAndWriteToFile(fs, password, fileName, data, wo) ==
  WriteToFile(fs, fileName, Encrypt(JsonMarshal(data), password), wo)

\* EncryptionFunctions.DecryptPasswordFromFile under the session password
\* `password`: [err, data]
DecryptPasswordFromFile(fs, password, fileName, ro) ==
  LET rd == ReadFromFile(fs, fileName, ro)
  IN  IF rd.err # "nil" THEN [err |-> rd.err, data |-> ZeroData]
      ELSE IF ~CanDecrypt(rd.data, password) THEN [err |-> "decrypt", data |-> ZeroData]
      ELSE [err |-> "nil", data |-> JsonUnmarshal(rd.data.plain)]

\* os.ReadDir of the store root: the names directly below the root, in
\* the order of the listing; files below .checker are not among them
IsRootName(p) == \A i \in 1..Len(p) : p[i] # "/"

RootNames(fs) == {p \in DOMAIN fs : IsRootName(p)}

\* byte order of the characters that occur in the names of the store
CharOrder == <<" ", "-", ".", "/">> \o DigitChars \o UpperChars \o <<"_">> \o LowerChars

Ord(c) == CHOOSE i \in DOMAIN CharOrder : CharOrder[i] = c

\* a sorts before b, byte-wise (the order of os.ReadDir)
NameLess(a, b) ==
  \/ Len(a) < Len(b) /\ SubSeq(b, 1, Len(a)) = a
  \/ \E i \in 1..Len(a) :
       /\ i <= Len(b)
       /\ SubSeq(a, 1, i - 1) = SubSeq(b, 1, i - 1)
       /\ Ord(a[i]) < Ord(b[i])

RECURSIVE SortNames(_)
SortNames(S) ==
  IF S = {} THEN << >>
  ELSE LET m == CHOOSE x \in S : \A y \in S \ {x} : NameLess(x, y)
       IN  <<m>> \o SortNames(S \ {m})

\* os.ReadDir(pf.FolderLocation): the files of the root and the .checker
\* directory (when `withChecker`), sorted by name
ReadDir(fs, withChecker) ==
  LET names == RootNames(fs) \cup (IF withChecker THEN {CheckerDir} ELSE {})
      sorted == SortNames(names)
  IN  [i \in 1..Len(sorted) |->
         [name |-> sorted[i], isDir |-> sorted[i] = CheckerDir]]

-----------------------------------------------------------------------------
(* menus: validation of the bootstrap inputs *)

minPasswordLength == 8
minPhraseLength == 12

\* validatePassword with the bound off by one: a password of
\* minPasswordLength - 1 characters is accepted
validatePassword_AcceptsSeven(password) == Len(password) >= minPasswordLength - 1

\* validatePassword
validatePassword(password) == Len(password) >= minPasswordLength

\* validatePhrase with the comparison off by one: a phrase of exactly
\* minPhraseLength characters is rejected
validatePhrase_OffByOne(phrase) == Len(phrase) > minPhraseLength

\* validatePhrase
validatePhrase(phrase) == Len(phrase) >= minPhraseLength

\* ti.CharLimit of the text input of the bootstrap and login prompts
PromptCharLimit == 156

\* the ValidationRecord, when a file exists at the validation key
ValidationPath == FilePath(CheckerInit)

-----------------------------------------------------------------------------
(* Inputs *)

pwA == Rep("a", 8)
pwB == Rep("b", 8)
pwShort == Rep("a", 7)
phraseP == Rep("p", 12)
phraseShort == Rep("p", 11)

\* what the user types at the master-password prompt of the bootstrap
BootPasswordInputs == {pwA, pwShort}
\* what the user types at the phrase prompt of the bootstrap
BootPhraseInputs == {phraseP, phraseShort}
\* what the user types at the login prompt
LoginInputs == {pwA, pwB, phraseP, EmptyString}

-----------------------------------------------------------------------------
(* Observed results *)

\* what an operation returned (ok, err) and what it printed (msg, with the
\* text of an error interpolated into it as detail); for a login attempt,
\* `after` is the number of failed attempts that preceded it
Result(op, arg, ok, err, msg, detail) ==
  [op |-> op, arg |-> arg, arg2 |-> EmptyString, ok |-> ok, err |-> err,
   msg |-> msg, detail |-> detail, after |-> 0]

NoOp == Result("none", EmptyString, FALSE, "nil", "none", "nil")

NoBoot == [set |-> FALSE, master |-> EmptyString, phrase |-> EmptyString]
NoRot == [set |-> FALSE, old |-> EmptyString, new |-> EmptyString,
          phrase |-> EmptyString]
NoEntry == [Filename |-> EmptyString, SiteName |-> EmptyString,
            Username |-> EmptyString, Email |-> EmptyString,
            CreatedAt |-> ZeroTime]

-----------------------------------------------------------------------------
(* main and Menu.Login *)

\* InitPasswordFolder/getDir and main up to the first prompt: InitCheck is
\* true exactly when .checker/init.gpg exists
StartPc(fs) == IF FileExists(fs, ValidationPath) THEN "LoginPrompt" ELSE "BootPassword"

\* the store of a machine on which the program never ran
Init ==
  /\ files = << >>
  /\ Password = EmptyString
  /\ InitCheck = FALSE
  /\ Dirs = << >>
  /\ LoggedIn = FALSE
  /\ Quit = FALSE
  /\ ErrorMessage = "none"
  /\ pc = "BootPassword"
  /\ entries = << >>
  /\ selected = NoEntry
  /\ now = 0
  /\ last = NoOp
  /\ failed = 0
  /\ boot = NoBoot
  /\ rot = NoRot

\* the process has ended (main returned or panicked) and is started again:
\* the store persists, everything in memory is new
Restart ==
  /\ pc \in {"Exited", "Panicked"}
  /\ Password' = EmptyString
  /\ InitCheck' = FileExists(files, ValidationPath)
  /\ Dirs' = ReadDir(files, TRUE)
  /\ LoggedIn' = FALSE
  /\ Quit' = FALSE
  /\ ErrorMessage' = "none"
  /\ pc' = StartPc(files)
  /\ entries' = << >>
  /\ selected' = NoEntry
  /\ last' = NoOp
  /\ failed' = 0
  /\ UNCHANGED <<files, now, boot, rot>>

\* time passes
Tick ==
  /\ now < MaxTime
  /\ now' = now + 1
  /\ UNCHANGED <<files, Password, InitCheck, Dirs, LoggedIn, Quit,
                 ErrorMessage, pc, entries, selected, last, failed, boot, rot>>

\* Login marking the store initialized as soon as the master password is
\* valid, before the ValidationRecord is sealed
BootSubmitPassword_SetsInit(typed) ==
  LET value == TextInputValue(typed, PromptCharLimit)
  IN  /\ pc = "BootPassword"
      /\ IF validatePassword(value)
         THEN /\ Password' = value
              /\ pc' = "BootPhrase"
              /\ InitCheck' = TRUE
              /\ ErrorMessage' = "none"
              /\ last' = Result("boot_password", value, TRUE, "nil", "none", "nil")
         ELSE /\ Password' = EmptyString
              /\ pc' = "BootPassword"
              /\ UNCHANGED InitCheck
              /\ ErrorMessage' = "short_password"
              /\ last' = Result("boot_password", value, FALSE, "nil",
                                "short_password", "nil")
      /\ UNCHANGED <<files, Dirs, LoggedIn, Quit, entries,
                     selected, now, failed, boot, rot>>

\* Login, bootstrap, first prompt: Enter on the master password
BootSubmitPassword(typed) ==
  LET value == TextInputValue(typed, PromptCharLimit)
  IN  /\ pc = "BootPassword"
      /\ IF validatePassword(value)
         THEN /\ Password' = value
              /\ pc' = "BootPhrase"
              /\ ErrorMessage' = "none"
              /\ last' = Result("boot_password", value, TRUE, "nil", "none", "nil")
         ELSE /\ Password' = EmptyString
              /\ pc' = "BootPassword"
              /\ ErrorMessage' = "short_password"
              /\ last' = Result("boot_password", value, FALSE, "nil",
                                "short_password", "nil")
      /\ UNCHANGED <<files, InitCheck, Dirs, LoggedIn, Quit, entries,
                     selected, now, failed, boot, rot>>

\* Login, bootstrap: Esc or Ctrl+C at either prompt; Login returns
\* (false, nil) and main leaves the login loop
BootQuit ==
  /\ pc \in {"BootPassword", "BootPhrase"}
  /\ Quit' = TRUE
  /\ pc' = "Exited"
  /\ last' = Result("boot_quit", EmptyString, FALSE, "nil", "escape", "nil")
  /\ UNCHANGED <<files, Password, InitCheck, Dirs, LoggedIn, ErrorMessage,
                 entries, selected, now, failed, boot, rot>>

\* Login, bootstrap, second prompt: Enter on the phrase; a valid phrase is
\* sealed as the ValidationRecord under the candidate password.  An invalid
\* phrase sets ErrorMessage, which the next turn of the loop clears before
\* the prompt is shown again (line 91).
BootSubmitPhrase(typed, wo) ==
  LET phrase == TextInputValue(typed, PromptCharLimit)
      data == [ZeroData EXCEPT !.Password = phrase,
                               !.CreatedAt = TimeNow(now),
                               !.UpdatedAt = TimeNow(now)]
      wr == EncryptPasswordAndWriteToFile(files, Password, CheckerInit, data, wo)
  IN  /\ pc = "BootPhrase"
      /\ ErrorMessage' = "none"
      /\ IF ~validatePhrase(phrase)
         THEN /\ last' = Result("boot_phrase", phrase, FALSE, "nil", "none", "nil")
              /\ UNCHANGED <<files, Password, InitCheck, pc, boot>>
         ELSE IF wr.err # "nil"
         THEN /\ files' = wr.fs
              /\ InitCheck' = FALSE
              /\ pc' = "Panicked"
              /\ last' = Result("boot_phrase", phrase, FALSE, wr.err, "panic", wr.err)
              /\ UNCHANGED <<Password, boot>>
         ELSE /\ files' = wr.fs
              /\ InitCheck' = TRUE
              /\ Password' = EmptyString
              /\ pc' = "LoginPrompt"
              /\ last' = Result("boot_phrase", phrase, TRUE, "nil", "none", "nil")
              /\ boot' = [set |-> TRUE, master |-> Password, phrase |-> phrase]
      /\ UNCHANGED <<Dirs, LoggedIn, Quit, entries, selected, now, failed, rot>>

\* Login returning true whether or not the ValidationRecord opened
LoginCheck_IgnoresError(fs, password, ro) ==
  LET dec == DecryptPasswordFromFile(fs, password, CheckerInit, ro)
  IN  IF dec.err # "nil"
      THEN [ok |-> TRUE, Password |-> password]
      ELSE [ok |-> TRUE, Password |-> dec.data.Password]

\* Login, lines 128-133, once the prompt has returned with the session
\* password `password`: [ok, Password]
LoginCheck(fs, password, ro) ==
  LET dec == DecryptPasswordFromFile(fs, password, CheckerInit, ro)
  IN  IF dec.err # "nil"
      THEN [ok |-> FALSE, Password |-> password]
      ELSE [ok |-> TRUE, Password |-> dec.data.Password]

\* the login loop leaving after the first failed attempt instead of
\* prompting again
AfterLogin_NoRetry(loggedIn, quit) ==
  IF quit \/ ~loggedIn THEN "Exited" ELSE "MainMenu"

\* main, lines 34-51: where the login loop goes after Login returned
AfterLogin(loggedIn, quit) ==
  IF quit THEN "Exited"
  ELSE IF ~loggedIn THEN "LoginPrompt"
  ELSE "MainMenu"

\* Login recording the time of a successful login in the ValidationRecord:
\* the record is sealed again with a new UpdatedAt
LoginSubmit_TouchesRecord(typed, ro) ==
  LET value == TextInputValue(typed, PromptCharLimit)
      res == LoginCheck(files, value, ro)
      dec == DecryptPasswordFromFile(files, value, CheckerInit, ro)
      wr == EncryptPasswordAndWriteToFile(files, value, CheckerInit,
              [dec.data EXCEPT !.UpdatedAt = TimeNow(now)], "ok")
  IN  /\ pc = "LoginPrompt"
      /\ files' = IF res.ok THEN wr.fs ELSE files
      /\ Password' = res.Password
      /\ LoggedIn' = res.ok
      /\ pc' = AfterLogin(res.ok, Quit)
      /\ ErrorMessage' = "none"
      /\ last' = [(IF res.ok
                   THEN Result("login", value, TRUE, "nil", "none", "nil")
                   ELSE Result("login", value, FALSE, "nil",
                               "incorrect_password", "nil"))
                  EXCEPT !.after = failed]
      /\ failed' = IF res.ok THEN 0
                   ELSE IF failed < MaxFailed THEN failed + 1 ELSE MaxFailed
      /\ UNCHANGED <<InitCheck, Dirs, Quit, entries, selected, now, boot, rot>>

\* Login on an initialized store: Enter at the login prompt; main shows
\* "Incorrect Password - Try again" and calls Login again when it failed
LoginSubmit(typed, ro) ==
  LET value == TextInputValue(typed, PromptCharLimit)
      res == LoginCheck(files, value, ro)
  IN  /\ pc = "LoginPrompt"
      /\ Password' = res.Password
      /\ LoggedIn' = res.ok
      /\ pc' = AfterLogin(res.ok, Quit)
      /\ ErrorMessage' = "none"
      /\ last' = [(IF res.ok
                   THEN Result("login", value, TRUE, "nil", "none", "nil")
                   ELSE Result("login", value, FALSE, "nil",
                               "incorrect_password", "nil"))
                  EXCEPT !.after = failed]
      /\ failed' = IF res.ok THEN 0
                   ELSE IF failed < MaxFailed THEN failed + 1 ELSE MaxFailed
      /\ UNCHANGED <<files, InitCheck, Dirs, Quit, entries, selected, now,
                     boot, rot>>

\* Login on an initialized store: Esc or Ctrl+C at the login prompt; the
\* prompt leaves Password as it was, Login still tries to decrypt, and main
\* leaves both loops because Quit is set
LoginQuit(ro) ==
  LET res == LoginCheck(files, Password, ro)
  IN  /\ pc = "LoginPrompt"
      /\ Quit' = TRUE
      /\ Password' = res.Password
      /\ LoggedIn' = res.ok
      /\ pc' = AfterLogin(res.ok, TRUE)
      /\ ErrorMessage' = "none"
      /\ last' = Result("login_quit", Password, res.ok, "nil", "escape", "nil")
      /\ UNCHANGED <<files, InitCheck, Dirs, entries, selected, now, failed, boot, rot>>

-----------------------------------------------------------------------------
(* utils.ParseFilenameToSiteName and Menu.getAllPasswordEntries *)

\* strings.LastIndex(s, "_"), 1-based; 0 when there is none
LastUnderscore(s) ==
  LET idx == {i \in 1..Len(s) : s[i] = "_"}
  IN  IF idx = {} THEN 0 ELSE CHOOSE i \in idx : \A j \in idx : j <= i

TimestampLen == 15

\* ParseFilenameToSiteName
ParseFilenameToSiteName(name) ==
  LET filename == TrimSuffix(name, GpgExt)
      lastUnderscore == LastUnderscore(filename)
      potentialTimestamp == SubSeq(filename, lastUnderscore + 1, Len(filename))
  IN  IF lastUnderscore = 0 THEN ReplaceAll(filename, "_", " ")
      ELSE IF Len(potentialTimestamp) = TimestampLen
              /\ Contains(potentialTimestamp, <<"_">>)
      THEN ReplaceAll(SubSeq(filename, 1, lastUnderscore - 1), "_", " ")
      ELSE ReplaceAll(filename, "_", " ")

\* getAllPasswordEntries, lines 383-395: the directory entry is a candidate
\* record file
IsCandidate(dirEntry) ==
  /\ ~dirEntry.isDir
  /\ HasSuffix(dirEntry.name, GpgExt)
  /\ dirEntry.name # InitGpg
  /\ ~Contains(dirEntry.name, CheckerDir)

\* getAllPasswordEntries without the `continue` on a decryption error
\* (lines 401-406): a file that does not decrypt is listed with zero metadata
getAllPasswordEntries_KeepUndecryptable(fs, dirs, password, unreadable) ==
  LET Ro(dirEntry) == IF dirEntry.name \in unreadable THEN "fail" ELSE "ok"
      Dec(dirEntry) == DecryptPasswordFromFile(fs, password,
                         TrimSuffix(dirEntry.name, GpgExt), Ro(dirEntry))
      kept == SelectSeq(dirs, IsCandidate)
  IN  [i \in 1..Len(kept) |->
         [Filename  |-> TrimSuffix(kept[i].name, GpgExt),
          SiteName  |-> ParseFilenameToSiteName(TrimSuffix(kept[i].name, GpgExt)),
          Username  |-> Dec(kept[i]).data.Username,
          Email     |-> Dec(kept[i]).data.Email,
          CreatedAt |-> Dec(kept[i]).data.CreatedAt]]

\* getAllPasswordEntries, lines 381-421, over the listing `dirs`;
\* `unreadable` are the paths whose os.ReadFile fails
getAllPasswordEntries(fs, dirs, password, unreadable) ==
  LET Ro(dirEntry) == IF dirEntry.name \in unreadable THEN "fail" ELSE "ok"
      Dec(dirEntry) == DecryptPasswordFromFile(fs, password,
                         TrimSuffix(dirEntry.name, GpgExt), Ro(dirEntry))
      kept == SelectSeq(dirs, LAMBDA d : IsCandidate(d) /\ Dec(d).err = "nil")
  IN  [i \in 1..Len(kept) |->
         [Filename  |-> TrimSuffix(kept[i].name, GpgExt),
          SiteName  |-> ParseFilenameToSiteName(TrimSuffix(kept[i].name, GpgExt)),
          Username  |-> Dec(kept[i]).data.Username,
          Email     |-> Dec(kept[i]).data.Email,
          CreatedAt |-> Dec(kept[i]).data.CreatedAt]]

-----------------------------------------------------------------------------
(* main menu: handleMenuAction *)

\* ti.CharLimit of the inputs of the add-password form
FormCharLimit == 200

siteGm == <<"G", "m">>
sitegm == <<"g", "m">>
siteBel == <<"BEL">>
secretX == <<"x">>

\* what the user types into the site and password fields of the form
AddSiteInputs == {siteGm, sitegm, siteBel}
AddSecretInputs == {secretX}

\* FormModel.validateForm: the required fields are not blank
formValidateForm(site, password) ==
  TrimSpace(site) # EmptyString /\ TrimSpace(password) # EmptyString

\* "add": Menu.AddNewPassword, the form cancelled with Esc or Ctrl+C
AddCancel ==
  /\ pc = "MainMenu"
  /\ ErrorMessage' = "none"
  /\ last' = Result("add", EmptyString, FALSE, "cancelled", "none", "nil")
  /\ UNCHANGED <<files, Password, InitCheck, Dirs, LoggedIn, Quit, pc,
                 entries, selected, now, failed, boot, rot>>

\* Menu.AddNewPassword sealing the entry before the required fields are
\* checked: an entry with an empty site name is written
AddNewPassword_WritesInvalid(typedSite, typedPassword, wo) ==
  LET site == TextInputValue(typedSite, FormCharLimit)
      password == TextInputValue(typedPassword, FormCharLimit)
      siteName == SanitizeInput(site)
      passwordEntry == [ZeroData EXCEPT !.Password = password,
                                        !.CreatedAt = TimeNow(now),
                                        !.UpdatedAt = TimeNow(now)]
      filename == GenerateFilename(siteName, now)
      wr == EncryptPasswordAndWriteToFile(files, Password, filename,
                                          passwordEntry, wo)
  IN  /\ pc = "MainMenu"
      /\ formValidateForm(site, password)
      /\ IF siteName = EmptyString \/ password = EmptyString
         THEN /\ ErrorMessage' = "site_and_password_required"
              /\ last' = Result("add", siteName, FALSE, "validation",
                                "site_and_password_required", "nil")
              /\ files' = wr.fs
         ELSE /\ \/ FileExists(files, FilePath(filename))
                 \/ Cardinality(RootNames(files)) < MaxFiles
              /\ files' = wr.fs
              /\ ErrorMessage' = "none"
              /\ last' = IF wr.err = "nil"
                         THEN [Result("add", filename, TRUE, "nil", "saved", "nil")
                                 EXCEPT !.after = Cardinality(RootNames(files))]
                         ELSE Result("add", filename, FALSE, wr.err,
                                     "error_adding", wr.err)
      /\ UNCHANGED <<Password, InitCheck, Dirs, LoggedIn, Quit, pc, entries,
                     selected, now, failed, boot, rot>>

\* "add": Menu.AddNewPassword, the form submitted with the site name and
\* password typed (username, email and URL left empty); last.after keeps
\* the number of record files the store held before a successful call
AddNewPassword(typedSite, typedPassword, wo) ==
  LET site == TextInputValue(typedSite, FormCharLimit)
      password == TextInputValue(typedPassword, FormCharLimit)
      siteName == SanitizeInput(site)
      passwordEntry == [ZeroData EXCEPT !.Password = password,
                                        !.CreatedAt = TimeNow(now),
                                        !.UpdatedAt = TimeNow(now)]
      filename == GenerateFilename(siteName, now)
      wr == EncryptPasswordAndWriteToFile(files, Password, filename,
                                          passwordEntry, wo)
  IN  /\ pc = "MainMenu"
      /\ formValidateForm(site, password)
      /\ IF siteName = EmptyString \/ password = EmptyString
         THEN /\ ErrorMessage' = "site_and_password_required"
              /\ last' = Result("add", siteName, FALSE, "validation",
                                "site_and_password_required", "nil")
              /\ UNCHANGED files
         ELSE /\ \/ FileExists(files, FilePath(filename))
                 \/ Cardinality(RootNames(files)) < MaxFiles
              /\ files' = wr.fs
              /\ ErrorMessage' = "none"
              /\ last' = IF wr.err = "nil"
                         THEN [Result("add", filename, TRUE, "nil", "saved", "nil")
                                 EXCEPT !.after = Cardinality(RootNames(files))]
                         ELSE Result("add", filename, FALSE, wr.err,
                                     "error_adding", wr.err)
      /\ UNCHANGED <<Password, InitCheck, Dirs, LoggedIn, Quit, pc, entries,
                     selected, now, failed, boot, rot>>

\* handleMenuAction clearing the session password on "change_master" and
\* "export"
ComingSoon_ClearsPassword(action) ==
  /\ pc = "MainMenu"
  /\ ErrorMessage' = "none"
  /\ Password' = EmptyString
  /\ last' = Result(action, EmptyString, TRUE, "nil", "coming_soon", "nil")
  /\ UNCHANGED <<files, InitCheck, Dirs, LoggedIn, Quit, pc,
                 entries, selected, now, failed, boot, rot>>

\* "change_master" and "export": handleMenuAction prints "coming soon"
ComingSoon(action) ==
  /\ pc = "MainMenu"
  /\ ErrorMessage' = "none"
  /\ last' = Result(action, EmptyString, TRUE, "nil", "coming_soon", "nil")
  /\ UNCHANGED <<files, Password, InitCheck, Dirs, LoggedIn, Quit, pc,
                 entries, selected, now, failed, boot, rot>>

\* "quit" selected, or Esc/Ctrl+C in the main menu (which also sets Quit)
MenuQuit(esc) ==
  /\ pc = "MainMenu"
  /\ Quit' = esc
  /\ pc' = "Exited"
  /\ ErrorMessage' = "none"
  /\ last' = Result("quit", EmptyString, TRUE, "nil", "goodbye", "nil")
  /\ UNCHANGED <<files, Password, InitCheck, Dirs, LoggedIn, entries,
                 selected, now, failed, boot, rot>>

-----------------------------------------------------------------------------
(* Menu.ListAllPasswords *)

\* "list": ListAllPasswords up to the first list; `rd` is the outcome of
\* os.ReadDir in RefreshDirectoryListing.  With no entry the empty list is
\* shown and the function returns.
ListAllPasswords(rd, unreadable) ==
  LET dirs == ReadDir(files, TRUE)
      got == getAllPasswordEntries(files, dirs, Password, unreadable)
  IN  /\ pc = "MainMenu"
      /\ ErrorMessage' = "none"
      /\ IF rd # "ok"
         THEN /\ last' = Result("list", EmptyString, FALSE, "readdir",
                                "error_listing", "readdir")
              /\ UNCHANGED <<Dirs, entries, pc>>
         ELSE /\ Dirs' = dirs
              /\ entries' = got
              /\ pc' = IF Len(got) = 0 THEN "MainMenu" ELSE "List"
              /\ last' = Result("list", EmptyString, TRUE, "nil", "list", "nil")
      /\ UNCHANGED <<files, Password, InitCheck, LoggedIn, Quit, selected,
                     now, failed, boot, rot>>

\* the list: Esc, q or Ctrl+C; ListAllPasswords returns to the main menu
ListCancel ==
  /\ pc = "List"
  /\ pc' = "MainMenu"
  /\ entries' = << >>
  /\ last' = Result("list_cancel", EmptyString, TRUE, "nil", "none", "nil")
  /\ UNCHANGED <<files, Password, InitCheck, Dirs, LoggedIn, Quit,
                 ErrorMessage, selected, now, failed, boot, rot>>

\* the list: Enter on entry i; the record is decrypted again for the detail
\* view, and a failure prints the error and returns to the list
ListSelect(i, ro) ==
  LET selectedEntry == entries[i]
      dec == DecryptPasswordFromFile(files, Password, selectedEntry.Filename, ro)
  IN  /\ pc = "List"
      /\ i \in 1..Len(entries)
      /\ IF dec.err # "nil"
         THEN /\ last' = Result("view", selectedEntry.Filename, FALSE, dec.err,
                                "error_loading_details", dec.err)
              /\ UNCHANGED <<pc, selected>>
         ELSE /\ pc' = "Detail"
              /\ selected' = selectedEntry
              /\ last' = Result("view", selectedEntry.Filename, TRUE, "nil",
                                "detail", "nil")
      /\ UNCHANGED <<files, Password, InitCheck, Dirs, LoggedIn, Quit,
                     ErrorMessage, entries, now, failed, boot, rot>>

\* the detail view: Esc, q, Backspace, Enter or Ctrl+C returns to the list
DetailBack ==
  /\ pc = "Detail"
  /\ pc' = "List"
  /\ selected' = NoEntry
  /\ last' = Result("detail_back", selected.Filename, TRUE, "nil", "list", "nil")
  /\ UNCHANGED <<files, Password, InitCheck, Dirs, LoggedIn, Quit,
                 ErrorMessage, entries, now, failed, boot, rot>>

\* the detail view: d requests the deletion, the confirmation dialog opens
DetailDelete ==
  /\ pc = "Detail"
  /\ pc' = "Confirm"
  /\ last' = Result("delete_request", selected.Filename, TRUE, "nil",
                    "confirm", "nil")
  /\ UNCHANGED <<files, Password, InitCheck, Dirs, LoggedIn, Quit,
                 ErrorMessage, entries, selected, now, failed, boot, rot>>

\* the confirmation dialog closes without confirmation: the loop continues
\* with the list
ConfirmCancel ==
  /\ pc = "Confirm"
  /\ pc' = "List"
  /\ selected' = NoEntry
  /\ last' = Result("delete", selected.Filename, FALSE, "cancelled", "list", "nil")
  /\ UNCHANGED <<files, Password, InitCheck, Dirs, LoggedIn, Quit,
                 ErrorMessage, entries, now, failed, boot, rot>>

\* the confirmation dialog confirms: DeleteFile, RefreshDirectoryListing,
\* getAllPasswordEntries (which refreshes again); `rm`, `rd1` and `rd2` are
\* the outcomes of os.Remove and of the two os.ReadDir calls
ConfirmDelete(rm, rd1, rd2, unreadable) ==
  LET del == DeleteFile(files, selected.Filename, rm)
      dirs == ReadDir(del.fs, TRUE)
      got == getAllPasswordEntries(del.fs, dirs, Password, unreadable)
  IN  /\ pc = "Confirm"
      /\ files' = del.fs
      /\ selected' = NoEntry
      /\ IF del.err # "nil"
         THEN /\ last' = Result("delete", selected.Filename, FALSE, del.err,
                                "error_deleting", del.err)
              /\ pc' = "List"
              /\ UNCHANGED <<Dirs, entries>>
         ELSE IF rd1 # "ok"
         THEN /\ last' = Result("delete", selected.Filename, TRUE, "readdir",
                                "error_refreshing", "readdir")
              /\ pc' = "List"
              /\ UNCHANGED <<Dirs, entries>>
         ELSE IF rd2 # "ok"
         THEN /\ Dirs' = dirs
              /\ entries' = << >>
              /\ last' = Result("delete", selected.Filename, TRUE, "readdir",
                                "error_listing", "readdir")
              /\ pc' = "MainMenu"
         ELSE /\ Dirs' = dirs
              /\ entries' = got
              /\ last' = Result("delete", selected.Filename, TRUE, "nil",
                                "deleted", "nil")
              /\ pc' = "List"
      /\ UNCHANGED <<Password, InitCheck, LoggedIn, Quit, ErrorMessage,
                     now, failed, boot, rot>>

-----------------------------------------------------------------------------
(* Menu.ChangeMasterPassword (rotation of the master password) *)

\* inputs[...].CharLimit of the three fields of the change-password form
ChangeCharLimit == 200

\* what the user types into the fields of the change-password form
ChangeCurrentInputs == {pwA, pwB, phraseP}
ChangeNewInputs == {pwA, pwB, pwShort}
ChangeConfirmInputs == {pwA, pwB, pwShort}

\* ChangeModel.validateForm without the check of the length of the new
\* password
changeValidateForm_NoLengthCheck(current, new, confirm) ==
  LET currentPass == TrimSpace(current)
      newPass == TrimSpace(new)
      confirmPass == TrimSpace(confirm)
  IN  /\ ~(currentPass = EmptyString \/ newPass = EmptyString
           \/ confirmPass = EmptyString)
      /\ ~(newPass # confirmPass)

\* ChangeModel.validateForm
changeValidateForm(current, new, confirm) ==
  LET currentPass == TrimSpace(current)
      newPass == TrimSpace(new)
      confirmPass == TrimSpace(confirm)
  IN  /\ ~(currentPass = EmptyString \/ newPass = EmptyString
           \/ confirmPass = EmptyString)
      /\ ~(Len(newPass) < minPasswordLength)
      /\ ~(newPass # confirmPass)

\* ChangeMasterPassword sealing a fresh Data{} in step 2 instead of the
\* record decrypted in step 1: the secret phrase is lost
Rotate_PhraseLost(fs, oldPassword, currentPass, newPass, ro1, wo, ro3, t) ==
  LET dec1 == DecryptPasswordFromFile(fs, currentPass, CheckerInit, ro1)
      validationData == [ZeroData EXCEPT !.UpdatedAt = TimeNow(t)]
      wr == EncryptPasswordAndWriteToFile(fs, newPass, CheckerInit,
                                          validationData, wo)
      dec3 == DecryptPasswordFromFile(wr.fs, newPass, CheckerInit, ro3)
  IN  IF dec1.err # "nil"
      THEN [out |-> "current_incorrect", err |-> "nil", detail |-> "nil",
            fs |-> fs, Password |-> oldPassword]
      ELSE IF wr.err # "nil"
      THEN [out |-> "error_saving", err |-> "nil", detail |-> wr.err,
            fs |-> wr.fs, Password |-> oldPassword]
      ELSE IF dec3.err # "nil"
      THEN [out |-> "critical_cannot_decrypt", err |-> "critical",
            detail |-> "nil", fs |-> wr.fs, Password |-> newPass]
      ELSE IF dec3.data.Password # validationData.Password
      THEN [out |-> "critical_corrupted", err |-> "integrity",
            detail |-> "nil", fs |-> wr.fs, Password |-> newPass]
      ELSE [out |-> "changed", err |-> "nil", detail |-> "nil",
            fs |-> wr.fs, Password |-> newPass]

\* ChangeMasterPassword running step 2 before it looks at the result of
\* step 1: the ValidationRecord is re-sealed although the current password
\* was wrong
Rotate_SealsBeforeCheck(fs, oldPassword, currentPass, newPass, ro1, wo, ro3, t) ==
  LET dec1 == DecryptPasswordFromFile(fs, currentPass, CheckerInit, ro1)
      validationData == [dec1.data EXCEPT !.UpdatedAt = TimeNow(t)]
      wr == EncryptPasswordAndWriteToFile(fs, newPass, CheckerInit,
                                          validationData, wo)
      dec3 == DecryptPasswordFromFile(wr.fs, newPass, CheckerInit, ro3)
  IN  IF dec1.err # "nil"
      THEN [out |-> "current_incorrect", err |-> "nil", detail |-> "nil",
            fs |-> wr.fs, Password |-> oldPassword]
      ELSE IF wr.err # "nil"
      THEN [out |-> "error_saving", err |-> "nil", detail |-> wr.err,
            fs |-> wr.fs, Password |-> oldPassword]
      ELSE IF dec3.err # "nil"
      THEN [out |-> "critical_cannot_decrypt", err |-> "critical",
            detail |-> "nil", fs |-> wr.fs, Password |-> newPass]
      ELSE IF dec3.data.Password # validationData.Password
      THEN [out |-> "critical_corrupted", err |-> "integrity",
            detail |-> "nil", fs |-> wr.fs, Password |-> newPass]
      ELSE [out |-> "changed", err |-> "nil", detail |-> "nil",
            fs |-> wr.fs, Password |-> newPass]

\* ChangeMasterPassword putting the former ValidationRecord back when the
\* verification of step 3 fails: an automatic rollback
Rotate_RollsBack(fs, oldPassword, currentPass, newPass, ro1, wo, ro3, t) ==
  LET dec1 == DecryptPasswordFromFile(fs, currentPass, CheckerInit, ro1)
      validationData == [dec1.data EXCEPT !.UpdatedAt = TimeNow(t)]
      wr == EncryptPasswordAndWriteToFile(fs, newPass, CheckerInit,
                                          validationData, wo)
      dec3 == DecryptPasswordFromFile(wr.fs, newPass, CheckerInit, ro3)
  IN  IF dec1.err # "nil"
      THEN [out |-> "current_incorrect", err |-> "nil", detail |-> "nil",
            fs |-> fs, Password |-> oldPassword]
      ELSE IF wr.err # "nil"
      THEN [out |-> "error_saving", err |-> "nil", detail |-> wr.err,
            fs |-> wr.fs, Password |-> oldPassword]
      ELSE IF dec3.err # "nil"
      THEN [out |-> "critical_cannot_decrypt", err |-> "critical",
            detail |-> "nil", fs |-> fs, Password |-> newPass]
      ELSE IF dec3.data.Password # validationData.Password
      THEN [out |-> "critical_corrupted", err |-> "integrity",
            detail |-> "nil", fs |-> fs, Password |-> newPass]
      ELSE [out |-> "changed", err |-> "nil", detail |-> "nil",
            fs |-> wr.fs, Password |-> newPass]

\* ChangeMasterPassword steps 1-4 on the submitted form data, at time t:
\* [out, err, fs, Password]; `ro1`, `wo`, `ro3` are the outcomes of the read
\* of step 1, the write of step 2 and the read of step 3
Rotate(fs, oldPassword, currentPass, newPass, ro1, wo, ro3, t) ==
  LET dec1 == DecryptPasswordFromFile(fs, currentPass, CheckerInit, ro1)
      validationData == [dec1.data EXCEPT !.UpdatedAt = TimeNow(t)]
      wr == EncryptPasswordAndWriteToFile(fs, newPass, CheckerInit,
                                          validationData, wo)
      dec3 == DecryptPasswordFromFile(wr.fs, newPass, CheckerInit, ro3)
  IN  IF dec1.err # "nil"
      THEN [out |-> "current_incorrect", err |-> "nil", detail |-> "nil",
            fs |-> fs, Password |-> oldPassword]
      ELSE IF wr.err # "nil"
      THEN [out |-> "error_saving", err |-> "nil", detail |-> wr.err,
            fs |-> wr.fs, Password |-> oldPassword]
      ELSE IF dec3.err # "nil"
      THEN [out |-> "critical_cannot_decrypt", err |-> "critical",
            detail |-> "nil", fs |-> wr.fs, Password |-> newPass]
      ELSE IF dec3.data.Password # validationData.Password
      THEN [out |-> "critical_corrupted", err |-> "integrity",
            detail |-> "nil", fs |-> wr.fs, Password |-> newPass]
      ELSE [out |-> "changed", err |-> "nil", detail |-> "nil",
            fs |-> wr.fs, Password |-> newPass]

\* the secret phrase held by the ValidationRecord on disk
StoredPhrase(fs) == fs[ValidationPath].plain.doc.Password

\* Menu.ChangeMasterPassword, the form cancelled with Esc or Ctrl+C
ChangeCancel ==
  /\ pc = "MainMenu"
  /\ ErrorMessage' = "none"
  /\ last' = Result("rotate", EmptyString, FALSE, "cancelled", "none", "nil")
  /\ UNCHANGED <<files, Password, InitCheck, Dirs, LoggedIn, Quit, pc,
                 entries, selected, now, failed, boot, rot>>

\* Menu.ChangeMasterPassword called in an authenticated session, the form
\* submitted with the three values typed
ChangeMasterPassword(typedCurrent, typedNew, typedConfirm, ro1, wo, ro3) ==
  LET currentPass == TextInputValue(typedCurrent, ChangeCharLimit)
      newPass == TextInputValue(typedNew, ChangeCharLimit)
      confirmPass == TextInputValue(typedConfirm, ChangeCharLimit)
      res == Rotate(files, Password, currentPass, newPass, ro1, wo, ro3, now)
  IN  /\ pc = "MainMenu"
      /\ changeValidateForm(currentPass, newPass, confirmPass)
      /\ ErrorMessage' = "none"
      /\ files' = res.fs
      /\ Password' = res.Password
      /\ last' = [Result("rotate", currentPass, res.out = "changed", res.err,
                         res.out, res.detail) EXCEPT !.arg2 = newPass]
      /\ rot' = IF res.out = "changed"
                THEN [set |-> TRUE, old |-> currentPass, new |-> newPass,
                      phrase |-> StoredPhrase(files)]
                ELSE IF res.out = "current_incorrect" THEN rot
                ELSE NoRot
      /\ UNCHANGED <<InitCheck, Dirs, LoggedIn, Quit, pc, entries, selected,
                     now, failed, boot>>

-----------------------------------------------------------------------------
(* The program as main runs it, every file operation succeeding *)

Next ==
  \/ Restart
  \/ Tick
  \/ \E typed \in BootPasswordInputs : BootSubmitPassword(typed)
  \/ BootQuit
  \/ \E typed \in BootPhraseInputs : BootSubmitPhrase(typed, "ok")
  \/ \E typed \in LoginInputs : LoginSubmit(typed, "ok")
  \/ LoginQuit("ok")
  \/ AddCancel
  \/ \E site \in AddSiteInputs, secret \in AddSecretInputs :
       AddNewPassword(site, secret, "ok")
  \/ \E action \in {"change_master", "export"} : ComingSoon(action)
  \/ \E esc \in BOOLEAN : MenuQuit(esc)
  \/ ListAllPasswords("ok", {})
  \/ ListCancel
  \/ \E i \in 1..MaxFiles : ListSelect(i, "ok")
  \/ DetailBack
  \/ DetailDelete
  \/ ConfirmCancel
  \/ ConfirmDelete("ok", "ok", "ok", {})

Spec == Init /\ [][Next]_vars

-----------------------------------------------------------------------------
(* The program with ChangeMasterPassword reachable from the main menu *)

NextRotate ==
  \/ Restart
  \/ Tick
  \/ \E typed \in BootPasswordInputs : BootSubmitPassword(typed)
  \/ BootQuit
  \/ \E typed \in BootPhraseInputs : BootSubmitPhrase(typed, "ok")
  \/ \E typed \in LoginInputs : LoginSubmit(typed, "ok")
  \/ LoginQuit("ok")
  \/ AddCancel
  \/ \E site \in AddSiteInputs, secret \in AddSecretInputs :
       AddNewPassword(site, secret, "ok")
  \/ \E action \in {"change_master", "export"} : ComingSoon(action)
  \/ \E esc \in BOOLEAN : MenuQuit(esc)
  \/ ListAllPasswords("ok", {})
  \/ ListCancel
  \/ \E i \in 1..MaxFiles : ListSelect(i, "ok")
  \/ DetailBack
  \/ DetailDelete
  \/ ConfirmCancel
  \/ ConfirmDelete("ok", "ok", "ok", {})
  \/ ChangeCancel
  \/ \E current \in ChangeCurrentInputs, new \in ChangeNewInputs,
        confirm \in ChangeConfirmInputs :
       ChangeMasterPassword(current, new, confirm, "ok", "ok", "ok")

SpecRotate == Init /\ [][NextRotate]_vars

-----------------------------------------------------------------------------
(* The program as main runs it when file operations may fail *)

\* the sets of record files whose os.ReadFile fails during one listing
UnreadableSets == SUBSET RootNames(files)

NextIO ==
  \/ Restart
  \/ Tick
  \/ \E typed \in BootPasswordInputs : BootSubmitPassword(typed)
  \/ BootQuit
  \/ \E typed \in BootPhraseInputs, wo \in WriteOutcomes :
       BootSubmitPhrase(typed, wo)
  \/ \E typed \in LoginInputs, ro \in ReadOutcomes : LoginSubmit(typed, ro)
  \/ \E ro \in ReadOutcomes : LoginQuit(ro)
  \/ AddCancel
  \/ \E site \in AddSiteInputs, secret \in AddSecretInputs, wo \in WriteOutcomes :
       AddNewPassword(site, secret, wo)
  \/ \E action \in {"change_master", "export"} : ComingSoon(action)
  \/ \E esc \in BOOLEAN : MenuQuit(esc)
  \/ \E rd \in ReadOutcomes, unreadable \in UnreadableSets :
       ListAllPasswords(rd, unreadable)
  \/ ListCancel
  \/ \E i \in 1..MaxFiles, ro \in ReadOutcomes : ListSelect(i, ro)
  \/ DetailBack
  \/ DetailDelete
  \/ ConfirmCancel
  \/ \E rm \in ReadOutcomes, rd1 \in ReadOutcomes, rd2 \in ReadOutcomes,
        unreadable \in UnreadableSets :
       ConfirmDelete(rm, rd1, rd2, unreadable)

SpecIO == Init /\ [][NextIO]_vars

-----------------------------------------------------------------------------
(* ChangeMasterPassword reachable, and its file operations may fail *)

NextRotateIO ==
  \/ Restart
  \/ Tick
  \/ \E typed \in BootPasswordInputs : BootSubmitPassword(typed)
  \/ BootQuit
  \/ \E typed \in BootPhraseInputs : BootSubmitPhrase(typed, "ok")
  \/ \E typed \in LoginInputs : LoginSubmit(typed, "ok")
  \/ LoginQuit("ok")
  \/ \E esc \in BOOLEAN : MenuQuit(esc)
  \/ ChangeCancel
  \/ \E current \in ChangeCurrentInputs, new \in ChangeNewInputs,
        confirm \in ChangeConfirmInputs,
        ro1 \in ReadOutcomes, wo \in WriteOutcomes, ro3 \in ReadOutcomes :
       ChangeMasterPassword(current, new, confirm, ro1, wo, ro3)

SpecRotateIO == Init /\ [][NextRotateIO]_vars

-----------------------------------------------------------------------------
(* The encryption functions on their own: seal a record, open it again *)

\* the session passwords records are sealed and opened with
SealPassphrases == {pwA, pwB, <<"a">>}

\* the records handed to EncryptPasswordAndWriteToFile
SealRecords ==
  {[ZeroData EXCEPT !.Password = pw, !.URL = url, !.CreatedAt = t, !.UpdatedAt = t] :
     pw \in {secretX, phraseP, EmptyString},
     url \in {EmptyString, <<"u">>},
     t \in {ZeroTime, TimeNow(0), TimeNow(1)}}

\* the fileName the records are sealed at
sealName == <<"r">>

\* a PasswordFolder whose session password is any of SealPassphrases, on an
\* empty store
InitSeal ==
  /\ files = << >>
  /\ Password \in SealPassphrases
  /\ InitCheck = TRUE
  /\ Dirs = << >>
  /\ LoggedIn = TRUE
  /\ Quit = FALSE
  /\ ErrorMessage = "none"
  /\ pc = "MainMenu"
  /\ entries = << >>
  /\ selected = NoEntry
  /\ now = 0
  /\ last = [op |-> "none"]
  /\ failed = 0
  /\ boot = NoBoot
  /\ rot = NoRot

\* EncryptPasswordAndWriteToFile(sealName, data) under the session password
SealRecord(data) ==
  LET wr == EncryptPasswordAndWriteToFile(files, Password, sealName, data, "ok")
  IN  /\ last.op = "none"
      /\ files' = wr.fs
      /\ last' = [op |-> "seal", err |-> wr.err, data |-> data, key |-> Password]
      /\ UNCHANGED <<Password, InitCheck, Dirs, LoggedIn, Quit, ErrorMessage,
                     pc, entries, selected, now, failed, boot, rot>>

\* DecryptPasswordFromFile(sealName) with the session password set to p
OpenRecord(p) ==
  LET dec == DecryptPasswordFromFile(files, p, sealName, "ok")
  IN  /\ last.op = "seal"
      /\ Password' = p
      /\ last' = [op |-> "open", err |-> dec.err, data |-> dec.data,
                  sealed |-> last.data, key |-> last.key]
      /\ UNCHANGED <<files, InitCheck, Dirs, LoggedIn, Quit, ErrorMessage,
                     pc, entries, selected, now, failed, boot, rot>>

NextSeal ==
  \/ \E data \in SealRecords : SealRecord(data)
  \/ \E p \in SealPassphrases : OpenRecord(p)

SpecSeal == InitSeal /\ [][NextSeal]_vars

-----------------------------------------------------------------------------
(* The program on a store that also holds a file it did not write *)

\* the name of a .gpg file put into the store directory by another tool
foreignName == <<"n", "o", "t", "e">>

\* the passwords such a file is encrypted with
ForeignPassphrases == {pwA, phraseP}

\* another tool (gpg --symmetric, a backup restored, an editor) writes
\* <root>/note.gpg: an armored message encrypted with password p whose
\* plaintext is not the JSON of a Data
ForeignFile(p) ==
  /\ FileExists(files, ValidationPath)
  /\ ~FileExists(files, FilePath(foreignName))
  /\ files' = Put(files, FilePath(foreignName),
                  Encrypt([valid |-> FALSE, doc |-> JsonMarshal(ZeroData).doc], p))
  /\ UNCHANGED <<Password, InitCheck, Dirs, LoggedIn, Quit, ErrorMessage, pc,
                 entries, selected, now, last, failed, boot, rot>>

NextForeign ==
  \/ Restart
  \/ \E typed \in BootPasswordInputs : BootSubmitPassword(typed)
  \/ \E typed \in BootPhraseInputs : BootSubmitPhrase(typed, "ok")
  \/ \E typed \in LoginInputs : LoginSubmit(typed, "ok")
  \/ \E site \in AddSiteInputs, secret \in AddSecretInputs :
       AddNewPassword(site, secret, "ok")
  \/ \E esc \in BOOLEAN : MenuQuit(esc)
  \/ ListAllPasswords("ok", {})
  \/ ListCancel
  \/ \E i \in 1..(MaxFiles + 1) : ListSelect(i, "ok")
  \/ DetailBack
  \/ \E p \in ForeignPassphrases : ForeignFile(p)

SpecForeign == Init /\ [][NextForeign]_vars

-----------------------------------------------------------------------------
(* The filename codec on its own: GenerateFilename, ParseFilenameToSiteName *)

\* the characters the site names are made of
CodecChars == {"G", "m", "7", " ", "_", "-", "."}

\* a site name longer than the 20 characters GenerateFilename keeps
longLabel == Rep("k", MaxCleanName + 1)

\* the site names handed to GenerateFilename: all of at most two characters
\* and a long one
CodecLabels ==
  {EmptyString} \cup {<<c>> : c \in CodecChars}
    \cup {<<c, d>> : c \in CodecChars, d \in CodecChars}
    \cup {longLabel}

\* a site name and an instant
InitCodec ==
  /\ files = << >>
  /\ Password = EmptyString
  /\ InitCheck = TRUE
  /\ Dirs = << >>
  /\ LoggedIn = TRUE
  /\ Quit = FALSE
  /\ ErrorMessage = "none"
  /\ pc = "MainMenu"
  /\ entries = << >>
  /\ selected = NoEntry
  /\ now \in 0..MaxTime
  /\ last \in {[op |-> "label", label |-> l] : l \in CodecLabels}
  /\ failed = 0
  /\ boot = NoBoot
  /\ rot = NoRot

\* filename := utils.GenerateFilename(siteName) at time `now`
Encode ==
  /\ last.op = "label"
  /\ last' = [op |-> "encoded", label |-> last.label,
              key |-> GenerateFilename(last.label, now)]
  /\ UNCHANGED <<files, Password, InitCheck, Dirs, LoggedIn, Quit,
                 ErrorMessage, pc, entries, selected, now, failed, boot, rot>>

\* siteName := utils.ParseFilenameToSiteName(filename)
Decode ==
  /\ last.op = "encoded"
  /\ last' = [op |-> "decoded", label |-> last.label, key |-> last.key,
              out |-> ParseFilenameToSiteName(last.key)]
  /\ UNCHANGED <<files, Password, InitCheck, Dirs, LoggedIn, Quit,
                 ErrorMessage, pc, entries, selected, now, failed, boot, rot>>

NextCodec ==
  \/ Encode
  \/ Decode

SpecCodec == InitCodec /\ [][NextCodec]_vars

-----------------------------------------------------------------------------
(* utils.GeneratePassword *)

uppercaseChars == UpperChars
lowercaseChars == LowerChars
numberChars == DigitChars
symbolChars == <<"!", "@", "#", "$", "%", "^", "&", "*", "(", ")", "-", "_", "=",
                 "+", "[", "]", "{", "}", "|", ";", ":", ",", ".", "<", ">", "?">>
ambiguousChars == <<"0", "O", "1", "l", "I">>

minGenLength == 8
maxGenLength == 64

\* removeAmbiguousChars
removeAmbiguousChars(charset) ==
  SelectSeq(charset, LAMBDA c : c \notin Range(ambiguousChars))

\* the outcomes of the successive calls of rand.Int: call number k returns
\* tape.a * k + tape.b reduced modulo the bound it is given
Draw(tape, k, n) == (tape.a * k + tape.b) % n

\* getRandomChar(charset) when rand.Int returns index r
getRandomChar(charset, r) == charset[r + 1]

\* shuffleBytes on slice[1..i] (Fisher-Yates, from the last element down),
\* the next call of rand.Int being call number k
RECURSIVE shuffleBytes(_, _, _, _)
shuffleBytes(slice, i, tape, k) ==
  IF i <= 1 THEN slice
  ELSE LET j == Draw(tape, k, i) + 1
           swapped == [slice EXCEPT ![i] = slice[j], ![j] = slice[i]]
       IN  shuffleBytes(swapped, i - 1, tape, k + 1)

\* GeneratePassword, line 48 negated: the length is accepted
ValidLength_AcceptsSeven(length) == ~(length < minGenLength - 1 \/ length > maxGenLength)

ValidLength(length) == ~(length < minGenLength \/ length > maxGenLength)

\* GeneratePassword, line 115 with the loop starting at 0: the guaranteed
\* characters are overwritten
FillStart_Zero(guaranteedChars) == 0

\* GeneratePassword, line 115: the first position (0-based) the fill loop
\* writes
FillStart(guaranteedChars) == Len(guaranteedChars)

\* GeneratePassword(opts) with the random numbers of `tape`: [password, err]
GeneratePassword(opts, tape) ==
  LET Chars(cs) == IF opts.ExcludeAmbiguous THEN removeAmbiguousChars(cs) ELSE cs
      classes == SelectSeq(
                   <<[inc |-> opts.IncludeUppercase, chars |-> Chars(uppercaseChars)],
                     [inc |-> opts.IncludeLowercase, chars |-> Chars(lowercaseChars)],
                     [inc |-> opts.IncludeNumbers,   chars |-> Chars(numberChars)],
                     [inc |-> opts.IncludeSymbols,   chars |-> symbolChars]>>,
                   LAMBDA c : c.inc)
      charset == IF Len(classes) = 0 THEN << >>
                 ELSE IF Len(classes) = 1 THEN classes[1].chars
                 ELSE IF Len(classes) = 2 THEN classes[1].chars \o classes[2].chars
                 ELSE IF Len(classes) = 3
                 THEN classes[1].chars \o classes[2].chars \o classes[3].chars
                 ELSE classes[1].chars \o classes[2].chars \o classes[3].chars
                        \o classes[4].chars
      guaranteedChars ==
        [k \in 1..Len(classes) |->
           getRandomChar(classes[k].chars, Draw(tape, k, Len(classes[k].chars)))]
      start == FillStart(guaranteedChars)
      password ==
        [p \in 1..opts.Length |->
           IF p > start
           THEN getRandomChar(charset,
                  Draw(tape, Len(guaranteedChars) + p - start, Len(charset)))
           ELSE guaranteedChars[p]]
      draws == Len(guaranteedChars) + opts.Length - start
  IN  IF ~ValidLength(opts.Length)
      THEN [password |-> EmptyString, err |-> "length"]
      ELSE IF Len(classes) = 0
      THEN [password |-> EmptyString, err |-> "no_class"]
      ELSE [password |-> shuffleBytes(password, opts.Length, tape, draws + 1),
            err |-> "nil"]

\* the lengths asked for: the ends of the accepted range and their
\* neighbours
GenLengths == {0, minGenLength - 1, minGenLength, minGenLength + 1,
               maxGenLength, maxGenLength + 1}

\* the PasswordOptions handed to GeneratePassword
GenOptions ==
  [Length : GenLengths, IncludeUppercase : BOOLEAN, IncludeLowercase : BOOLEAN,
   IncludeNumbers : BOOLEAN, IncludeSymbols : BOOLEAN, ExcludeAmbiguous : BOOLEAN]

\* the sequences of random numbers tried
GenTapes == [a : {0, 1, 7}, b : {0, 1, 8, 14}]

\* options and a source of random numbers
InitGen ==
  /\ files = << >>
  /\ Password = EmptyString
  /\ InitCheck = TRUE
  /\ Dirs = << >>
  /\ LoggedIn = TRUE
  /\ Quit = FALSE
  /\ ErrorMessage = "none"
  /\ pc = "MainMenu"
  /\ entries = << >>
  /\ selected = NoEntry
  /\ now = 0
  /\ last \in {[op |-> "options", opts |-> o, tape |-> t] :
                 o \in GenOptions, t \in GenTapes}
  /\ failed = 0
  /\ boot = NoBoot
  /\ rot = NoRot

\* password, err := utils.GeneratePassword(opts)
Generate ==
  LET res == GeneratePassword(last.opts, last.tape)
  IN  /\ last.op = "options"
      /\ last' = [op |-> "generated", opts |-> last.opts, tape |-> last.tape,
                  password |-> res.password, err |-> res.err]
      /\ UNCHANGED <<files, Password, InitCheck, Dirs, LoggedIn, Quit,
                     ErrorMessage, pc, entries, selected, now, failed, boot, rot>>

NextGen ==
  \/ Generate

SpecGen == InitGen /\ [][NextGen]_vars

-----------------------------------------------------------------------------
(* File modes of the store *)

\* the permission bits os.WriteFile is given, 0666: read and write for the
\* user, the group and the others
WritePerm == {"ur", "uw", "gr", "gw", "or", "ow"}

\* the file mode creation mask the process inherits, which the program
\* never sets: 000, 022, 077
Umasks == {{}, {"gw", "ow"}, {"gr", "gw", "or", "ow"}}

\* the modes of the files after os.WriteFile or os.Remove took the store
\* from its former content to fs: a file that is created gets the requested
\* bits without those of the mask, a file that existed keeps its mode
ModesAfter(modes, fs, umask) ==
  [q \in DOMAIN fs |-> IF q \in DOMAIN modes THEN modes[q] ELSE WritePerm \ umask]

ModeNames == {CheckerInit, sealName}

ModeRecords == {ZeroData, [ZeroData EXCEPT !.Password = secretX]}

\* an empty store under one of the masks
InitMode ==
  /\ files = << >>
  /\ Password \in SealPassphrases
  /\ InitCheck = TRUE
  /\ Dirs = << >>
  /\ LoggedIn = TRUE
  /\ Quit = FALSE
  /\ ErrorMessage = "none"
  /\ pc = "MainMenu"
  /\ entries = << >>
  /\ selected = NoEntry
  /\ now = 0
  /\ last \in {[op |-> "mode", umask |-> u, modes |-> << >>, err |-> "nil"] :
                 u \in Umasks}
  /\ failed = 0
  /\ boot = NoBoot
  /\ rot = NoRot

\* EncryptPasswordAndWriteToFile(fileName, data): the only path by which the
\* program writes a file
StoreWrite(fileName, data, wo) ==
  LET r == EncryptPasswordAndWriteToFile(files, Password, fileName, data, wo)
  IN  /\ last.op = "mode"
      /\ files' = r.fs
      /\ last' = [last EXCEPT !.modes = ModesAfter(last.modes, r.fs, last.umask),
                              !.err = r.err]
      /\ UNCHANGED <<Password, InitCheck, Dirs, LoggedIn, Quit, ErrorMessage,
                     pc, entries, selected, now, failed, boot, rot>>

\* PasswordFolder.DeleteFile(fileName)
StoreDelete(fileName, rm) ==
  LET r == DeleteFile(files, fileName, rm)
  IN  /\ last.op = "mode"
      /\ files' = r.fs
      /\ last' = [last EXCEPT !.modes = ModesAfter(last.modes, r.fs, last.umask),
                              !.err = r.err]
      /\ UNCHANGED <<Password, InitCheck, Dirs, LoggedIn, Quit, ErrorMessage,
                     pc, entries, selected, now, failed, boot, rot>>

NextMode ==
  \/ \E fileName \in ModeNames, data \in ModeRecords, wo \in WriteOutcomes :
       StoreWrite(fileName, data, wo)
  \/ \E fileName \in ModeNames, rm \in {"ok", "fail"} : StoreDelete(fileName, rm)

SpecMode == InitMode /\ [][NextMode]_vars

-----------------------------------------------------------------------------
(* Entries added under the same site name within one second *)

secretY == <<"y">>

\* the passwords typed into the form
CollideSecrets == {secretX, secretY}

NextCollide ==
  \/ Restart
  \/ Tick
  \/ \E typed \in BootPasswordInputs : BootSubmitPassword(typed)
  \/ \E typed \in BootPhraseInputs : BootSubmitPhrase(typed, "ok")
  \/ \E typed \in LoginInputs : LoginSubmit(typed, "ok")
  \/ \E site \in AddSiteInputs, secret \in CollideSecrets :
       AddNewPassword(site, secret, "ok")
  \/ \E esc \in BOOLEAN : MenuQuit(esc)

SpecCollide == Init /\ [][NextCollide]_vars

-----------------------------------------------------------------------------
(* The confirmation dialog of the deletion, key by key *)

\* the keys pressed in the dialog; "x" stands for every key it ignores
ConfirmKeys == {"ctrl+c", "esc", "n", "N", "y", "Y", "enter", " ",
                "up", "k", "down", "j", "tab", "x"}

\* ConfirmModel.Update with Enter and Space confirming wherever the cursor
\* is
ConfirmUpdate_EnterConfirms(cursor, key) ==
  CASE key \in {"ctrl+c", "esc", "n", "N"} ->
         [cursor |-> cursor, confirmed |-> FALSE, cancelled |-> TRUE, quit |-> TRUE]
    [] key \in {"y", "Y", "enter", " "} ->
         [cursor |-> cursor, confirmed |-> TRUE, cancelled |-> FALSE, quit |-> TRUE]
    [] key \in {"up", "k"} ->
         [cursor |-> 0, confirmed |-> FALSE, cancelled |-> FALSE, quit |-> FALSE]
    [] key \in {"down", "j"} ->
         [cursor |-> 1, confirmed |-> FALSE, cancelled |-> FALSE, quit |-> FALSE]
    [] key = "tab" ->
         [cursor |-> 1 - cursor, confirmed |-> FALSE, cancelled |-> FALSE,
          quit |-> FALSE]
    [] OTHER ->
         [cursor |-> cursor, confirmed |-> FALSE, cancelled |-> FALSE,
          quit |-> FALSE]

\* ConfirmModel.Update on a key message, the cursor at `cursor` (0 is "No",
\* 1 is "Yes"): the model after the key, and whether the dialog closes
ConfirmUpdate(cursor, key) ==
  CASE key \in {"ctrl+c", "esc", "n", "N"} ->
         [cursor |-> cursor, confirmed |-> FALSE, cancelled |-> TRUE, quit |-> TRUE]
    [] key \in {"y", "Y"} ->
         [cursor |-> cursor, confirmed |-> TRUE, cancelled |-> FALSE, quit |-> TRUE]
    [] key \in {"enter", " "} ->
         [cursor |-> cursor, confirmed |-> cursor = 1, cancelled |-> cursor # 1,
          quit |-> TRUE]
    [] key \in {"up", "k"} ->
         [cursor |-> 0, confirmed |-> FALSE, cancelled |-> FALSE, quit |-> FALSE]
    [] key \in {"down", "j"} ->
         [cursor |-> 1, confirmed |-> FALSE, cancelled |-> FALSE, quit |-> FALSE]
    [] key = "tab" ->
         [cursor |-> 1 - cursor, confirmed |-> FALSE, cancelled |-> FALSE,
          quit |-> FALSE]
    [] OTHER ->
         [cursor |-> cursor, confirmed |-> FALSE, cancelled |-> FALSE,
          quit |-> FALSE]

\* a key pressed in the confirmation dialog; last.after holds the cursor,
\* which NewConfirmDialog puts on "No" (0); when the dialog closes,
\* ListAllPasswords goes on with IsConfirmed()
ConfirmPress(key) ==
  LET m == ConfirmUpdate(last.after, key)
  IN  /\ pc = "Confirm"
      /\ IF ~m.quit
         THEN /\ last' = [last EXCEPT !.after = m.cursor]
              /\ UNCHANGED <<files, Password, InitCheck, Dirs, LoggedIn, Quit,
                             ErrorMessage, pc, entries, selected, now, failed,
                             boot, rot>>
         ELSE IF m.confirmed
         THEN ConfirmDelete("ok", "ok", "ok", {})
         ELSE ConfirmCancel

NextConfirm ==
  \/ Restart
  \/ Tick
  \/ \E typed \in BootPasswordInputs : BootSubmitPassword(typed)
  \/ \E typed \in BootPhraseInputs : BootSubmitPhrase(typed, "ok")
  \/ \E typed \in LoginInputs : LoginSubmit(typed, "ok")
  \/ \E site \in AddSiteInputs, secret \in AddSecretInputs :
       AddNewPassword(site, secret, "ok")
  \/ \E esc \in BOOLEAN : MenuQuit(esc)
  \/ ListAllPasswords("ok", {})
  \/ ListCancel
  \/ \E i \in 1..MaxFiles : ListSelect(i, "ok")
  \/ DetailBack
  \/ DetailDelete
  \/ \E key \in ConfirmKeys : ConfirmPress(key)

SpecConfirm == Init /\ [][NextConfirm]_vars

-----------------------------------------------------------------------------
(* utils.EvaluatePasswordStrength *)

\* regexp.MatchString of a character class: some character is in `class`
MatchClass(password, class) == \E i \in 1..Len(password) : password[i] \in class

\* the score left as counted, not brought down to 4
NormalizeScore_NoClamp(score) == score

\* lines 193-196: the score brought into 0..4
NormalizeScore(score) == IF score > 4 THEN 4 ELSE score

descriptions == <<"Very Weak", "Weak", "Fair", "Good", "Strong">>

\* EvaluatePasswordStrength: [score, description]
EvaluatePasswordStrength(password) ==
  LET Inc(cond) == IF cond THEN 1 ELSE 0
      alnum == Range(LowerChars) \cup Range(UpperChars) \cup Range(DigitChars)
      score == Inc(Len(password) >= 8)
                 + Inc(Len(password) >= 12)
                 + Inc(MatchClass(password, Range(LowerChars)))
                 + Inc(MatchClass(password, Range(UpperChars)))
                 + Inc(MatchClass(password, Range(DigitChars)))
                 + Inc(\E i \in 1..Len(password) : password[i] \notin alnum)
      normal == NormalizeScore(score)
  IN  [score |-> normal,
       description |-> IF normal + 1 \in DOMAIN descriptions
                       THEN descriptions[normal + 1] ELSE "panic"]

\* the passwords evaluated: for every non-empty set of the four kinds of
\* character, one character of each kind, padded with the first to the
\* lengths around the two thresholds; and the empty password
StrengthKinds == <<"a", "A", "7", "!">>
StrengthLengths == {1, 4, 7, 8, 11, 12}
StrengthPasswords ==
  {EmptyString} \cup
  {SelectSeq(StrengthKinds, LAMBDA c : c \in S)
     \o Rep(CHOOSE c \in S : TRUE, n - Cardinality(S)) :
       <<S, n>> \in {x \in (SUBSET Range(StrengthKinds) \ {{}}) \X StrengthLengths :
                       x[2] >= Cardinality(x[1])}}

InitStrength ==
  /\ files = << >>
  /\ Password = EmptyString
  /\ InitCheck = TRUE
  /\ Dirs = << >>
  /\ LoggedIn = TRUE
  /\ Quit = FALSE
  /\ ErrorMessage = "none"
  /\ pc = "MainMenu"
  /\ entries = << >>
  /\ selected = NoEntry
  /\ now = 0
  /\ last \in {[op |-> "password", password |-> p] : p \in StrengthPasswords}
  /\ failed = 0
  /\ boot = NoBoot
  /\ rot = NoRot

\* score, description := utils.EvaluatePasswordStrength(password)
Evaluate ==
  LET res == EvaluatePasswordStrength(last.password)
  IN  /\ last.op = "password"
      /\ last' = [op |-> "strength", password |-> last.password,
                  score |-> res.score, description |-> res.description]
      /\ UNCHANGED <<files, Password, InitCheck, Dirs, LoggedIn, Quit,
                     ErrorMessage, pc, entries, selected, now, failed, boot, rot>>

NextStrength ==
  \/ Evaluate

SpecStrength == InitStrength /\ [][NextStrength]_vars

-----------------------------------------------------------------------------
(* fileio.InitPasswordFolder and getDir at the start of the process *)

\* outcomes of os.ReadDir, os.Mkdir and os.Stat for a reason other than a
\* missing name (permissions, for instance)
CallOutcomes == {"ok", "fail"}

\* getDir on a disk where the root directory and .checker exist or not and
\* the store holds the files fs: whether log.Fatal ends the process, the
\* directories afterwards, and the fields of the PasswordFolder.  `rd1`,
\* `mk1` are the outcomes of reading and of creating the root, `rd2`, `mk2`
\* those for .checker, `st` that of os.Stat in FileExists
getDir(fs, root, checker, rd1, mk1, rd2, mk2, st) ==
  LET root1 == root \/ mk1 = "ok"
      fatal1 == ~root1 \/ rd1 # "ok"
      checker1 == checker \/ mk2 = "ok"
      fatal2 == checker /\ rd2 # "ok"
      exists == IF st = "ok" THEN FileExists(fs, ValidationPath) ELSE TRUE
  IN  IF fatal1
      THEN [fatal |-> TRUE, root |-> root1, checker |-> checker,
            InitCheck |-> TRUE, Dirs |-> << >>]
      ELSE IF fatal2
      THEN [fatal |-> TRUE, root |-> root1, checker |-> checker,
            InitCheck |-> TRUE, Dirs |-> << >>]
      ELSE [fatal |-> FALSE, root |-> root1, checker |-> checker1,
            InitCheck |-> exists, Dirs |-> ReadDir(fs, checker)]

\* the stores found at the start: none, a root directory without .checker,
\* or both directories, with record files and a ValidationRecord
ReadyRecords == SUBSET {FilePath(sealName), FilePath(foreignName),
                        FilePath(GenerateFilename(sitegm, 0))}
ReadyDisks ==
  {[root |-> FALSE, checker |-> FALSE, fs |-> << >>]}
    \cup {[root |-> TRUE, checker |-> FALSE,
           fs |-> [q \in R |-> Encrypt(JsonMarshal(ZeroData), pwA)]] :
            R \in ReadyRecords}
    \cup {[root |-> TRUE, checker |-> TRUE,
           fs |-> [q \in R |-> Encrypt(JsonMarshal(ZeroData), pwA)]] :
            R \in ReadyRecords}
    \cup {[root |-> TRUE, checker |-> TRUE,
           fs |-> [q \in R \cup {ValidationPath} |->
                     IF q = ValidationPath THEN v
                     ELSE Encrypt(JsonMarshal(ZeroData), pwA)]] :
            R \in ReadyRecords,
            v \in {Encrypt(JsonMarshal([ZeroData EXCEPT !.Password = phraseP]), k) :
                     k \in {pwA, pwB}} \cup {PartialBlob}}

\* the process is about to start
InitReady ==
  /\ files \in {d.fs : d \in ReadyDisks}
  /\ Password = EmptyString
  /\ InitCheck = TRUE
  /\ Dirs = << >>
  /\ LoggedIn = FALSE
  /\ Quit = FALSE
  /\ ErrorMessage = "none"
  /\ pc = "Start"
  /\ entries = << >>
  /\ selected = NoEntry
  /\ now = 0
  /\ last \in {[op |-> "disk", root |-> d.root, checker |-> d.checker] :
                 d \in {e \in ReadyDisks : e.fs = files}}
  /\ failed = 0
  /\ boot = NoBoot
  /\ rot = NoRot

\* main: passwordFolder := fileio.InitPasswordFolder()
InitPasswordFolder(rd1, mk1, rd2, mk2, st) ==
  LET r == getDir(files, last.root, last.checker, rd1, mk1, rd2, mk2, st)
  IN  /\ pc = "Start"
      /\ last.op = "disk"
      /\ pc' = IF r.fatal THEN "Fatal"
               ELSE IF r.InitCheck THEN "LoginPrompt" ELSE "BootPassword"
      /\ InitCheck' = r.InitCheck
      /\ Dirs' = r.Dirs
      /\ last' = [op |-> "ready", fatal |-> r.fatal, root |-> r.root,
                  checker |-> r.checker, before |-> files,
                  readable |-> (last.root \/ mk1 = "ok") /\ rd1 = "ok"]
      /\ UNCHANGED <<files, Password, LoggedIn, Quit, ErrorMessage, entries,
                     selected, now, failed, boot, rot>>

NextReady ==
  \/ \E rd1 \in CallOutcomes, mk1 \in CallOutcomes, rd2 \in CallOutcomes,
        mk2 \in CallOutcomes, st \in CallOutcomes :
       InitPasswordFolder(rd1, mk1, rd2, mk2, st)

SpecReady == InitReady /\ [][NextReady]_vars

-----------------------------------------------------------------------------
(* Entries added under site names that look like paths *)

\* the site names typed: the validation key itself, a name longer than the
\* clean name may be, a name with capitals
ReservedSites == {CheckerInit, longLabel, siteGm}

NextReserved ==
  \/ Restart
  \/ Tick
  \/ \E typed \in BootPasswordInputs : BootSubmitPassword(typed)
  \/ \E typed \in BootPhraseInputs : BootSubmitPhrase(typed, "ok")
  \/ \E typed \in LoginInputs : LoginSubmit(typed, "ok")
  \/ \E site \in ReservedSites, secret \in AddSecretInputs :
       AddNewPassword(site, secret, "ok")
  \/ \E esc \in BOOLEAN : MenuQuit(esc)
  \/ ListAllPasswords("ok", {})
  \/ ListCancel
  \/ \E i \in 1..MaxFiles : ListSelect(i, "ok")
  \/ DetailBack
  \/ DetailDelete
  \/ ConfirmCancel
  \/ ConfirmDelete("ok", "ok", "ok", {})

SpecReserved == Init /\ [][NextReserved]_vars

-----------------------------------------------------------------------------
(* The change-password form with padded and long values typed *)

\* a passphrase followed by a space, and one a character longer than the
\* login prompt holds
pwBPad == pwB \o <<" ">>
pwLong == Rep("c", PromptCharLimit + 1)

\* what the user types into the three fields of the form
FormCurrentInputs == {pwA, pwB, pwBPad}
FormNewInputs == {pwA, pwB, pwBPad, pwShort, pwLong}
FormConfirmInputs == {pwA, pwB, pwShort, pwLong}
\* what the user types at the login prompt
FormLoginInputs == {pwA, pwB, pwBPad, pwLong}

NextForm ==
  \/ Restart
  \/ Tick
  \/ \E typed \in BootPasswordInputs : BootSubmitPassword(typed)
  \/ \E typed \in BootPhraseInputs : BootSubmitPhrase(typed, "ok")
  \/ \E typed \in FormLoginInputs : LoginSubmit(typed, "ok")
  \/ \E esc \in BOOLEAN : MenuQuit(esc)
  \/ ChangeCancel
  \/ \E current \in FormCurrentInputs, new \in FormNewInputs,
        confirm \in FormConfirmInputs :
       ChangeMasterPassword(current, new, confirm, "ok", "ok", "ok")

SpecForm == Init /\ [][NextForm]_vars

-----------------------------------------------------------------------------
(* Properties *)

\* the passphrases the users of the model type
Passphrases ==
  BootPasswordInputs \cup LoginInputs \cup ChangeCurrentInputs \cup ChangeNewInputs

\* Login, lines 128-131: the ValidationRecord of store fs decrypts under p
Opens(fs, p) == DecryptPasswordFromFile(fs, p, CheckerInit, "ok").err = "nil"

\* the record files of the store root that decrypt under the session password
Decryptable == {f \in RootNames(files) : CanDecrypt(files[f], Password)}

\* the record files sealed before the ValidationRecord was last re-sealed,
\* under another passphrase than the one the ValidationRecord is sealed
\* under now
SealedBeforeRotation ==
  {f \in RootNames(files) :
     /\ files[f].intact
     /\ files[f].plain.doc.CreatedAt < files[ValidationPath].plain.doc.UpdatedAt
     /\ files[f].key # files[ValidationPath].key}

\* the file names the catalog shows
Listed == {FilePath(entries[i].Filename) : i \in 1..Len(entries)}

\* C1: after ChangeMasterPassword succeeded from the passphrase rot.old to a
\* different, valid passphrase rot.new, the ValidationRecord opens with
\* rot.new and no longer with rot.old, it still holds the secret phrase it
\* held before the rotation, a login attempt with rot.new succeeds and a
\* login attempt with rot.old fails.
C1_RotationSuccess ==
  (rot.set /\ rot.new # rot.old /\ Len(rot.new) >= 8) =>
    /\ Opens(files, rot.new)
    /\ ~Opens(files, rot.old)
    /\ StoredPhrase(files) = rot.phrase
    /\ (last.op = "login" /\ last.arg = rot.new) => (last.ok /\ LoggedIn)
    /\ (last.op = "login" /\ last.arg = rot.old) => (~last.ok /\ ~LoggedIn)

C1_Witness ==
  /\ rot.set /\ rot.new # rot.old
  /\ rot.old = boot.master
  /\ last.op = "login" /\ last.arg = rot.new /\ last.ok

\* C2: in an authenticated session the session password is the passphrase
\* that opens the ValidationRecord, and right after a successful login it is
\* the passphrase the user typed at the login prompt.
C2_SessionHoldsLoginPassphrase ==
  /\ (LoggedIn => Opens(files, Password))
  /\ (last.op = "login" /\ last.ok) => Password = last.arg

\* C3: without rotation, every record file in the store opens with exactly
\* the passphrases that open the ValidationRecord.
C3_RecordsUnderMasterPassphrase ==
  \A f \in RootNames(files), p \in Passphrases :
    CanDecrypt(files[f], p) <=> Opens(files, p)

\* a step of ChangeMasterPassword with the form submitted: last'.arg is
\* the passphrase typed as current, last'.arg2 the one typed as new
RotateStep ==
  /\ pc = "MainMenu"
  /\ now' = now
  /\ last'.op = "rotate"
  /\ last'.err # "cancelled"

\* C4 as the specification states it: ChangeMasterPassword with a current
\* passphrase that does not open the ValidationRecord reports "current
\* password incorrect", changes no file, and afterwards the ValidationRecord
\* opens neither with the passphrase typed as current nor with the one typed
\* as new.
C4_WrongCurrent_AsStated ==
  [][(RotateStep /\ ~Opens(files, last'.arg))
       => /\ last'.msg = "current_incorrect" /\ ~last'.ok
          /\ files' = files
          /\ \E p \in Passphrases : Opens(files', p)
          /\ \A p \in Passphrases : Opens(files', p) <=> Opens(files, p)
          /\ ~Opens(files', last'.arg)
          /\ ~Opens(files', last'.arg2)]_vars

\* C4: ChangeMasterPassword with a current passphrase that does not open the
\* ValidationRecord reports "current password incorrect", changes no file,
\* and afterwards the ValidationRecord opens with exactly the passphrases
\* that opened it before: not with the passphrase typed as current, and with
\* the one typed as new only when that is the original passphrase.
C4_WrongCurrent ==
  [][(RotateStep /\ ~Opens(files, last'.arg))
       => /\ last'.msg = "current_incorrect" /\ ~last'.ok
          /\ files' = files
          /\ \E p \in Passphrases : Opens(files', p)
          /\ \A p \in Passphrases : Opens(files', p) <=> Opens(files, p)
          /\ ~Opens(files', last'.arg)
          /\ Opens(files', last'.arg2) => Opens(files, last'.arg2)]_vars

C4_Witness ==
  /\ last.op = "rotate" /\ last.msg = "current_incorrect"
  /\ ~Opens(files, last.arg)
  /\ ~Opens(files, last.arg2)
  /\ \E p \in Passphrases : Opens(files, p)

\* C5: when step 2 of ChangeMasterPassword fails ("Error saving new master
\* password"), the ValidationRecord on disk still opens with the current
\* passphrase that opened it in step 1.
C5_Step2FailureKeepsRecord ==
  (last.op = "rotate" /\ last.msg = "error_saving") => Opens(files, last.arg)

\* C6: after a successful rotation to a different passphrase, in every
\* authenticated session no record file sealed before the rotation (and not
\* sealed under the new passphrase) decrypts under the session password,
\* and none is in the catalog.
C6_EarlierRecordsUnreadable ==
  (rot.set /\ rot.new # rot.old /\ LoggedIn) =>
    \A f \in SealedBeforeRotation :
      /\ ~CanDecrypt(files[f], Password)
      /\ (pc \in {"List", "Detail", "Confirm"} => f \notin Listed)

\* C7: on a fresh store a master password of at least 8 characters is
\* accepted, and a phrase of at least 12 characters submitted after it sets
\* InitCheck, creates the ValidationRecord holding the phrase sealed under
\* that master password and clears the session password; from then on a
\* login attempt succeeds exactly when it is made with that master password.
C7_Bootstrap ==
  /\ (last.op = "boot_password" /\ Len(last.arg) >= 8) =>
        (last.ok /\ pc = "BootPhrase" /\ Password = last.arg)
  /\ (last.op = "boot_phrase" /\ Len(last.arg) >= 12) =>
        /\ last.ok /\ boot.set /\ pc = "LoginPrompt"
        /\ Len(boot.master) >= 8
        /\ StoredPhrase(files) = last.arg
        /\ Password = EmptyString
  /\ boot.set =>
        /\ InitCheck
        /\ FileExists(files, ValidationPath)
        /\ files[ValidationPath].key = boot.master
        /\ Opens(files, boot.master)
        /\ StoredPhrase(files) = boot.phrase
        /\ last.op = "login" => (last.ok <=> last.arg = boot.master)
        /\ last.op = "login" => (LoggedIn <=> last.arg = boot.master)

C7_Witness ==
  /\ boot.set /\ Len(boot.master) >= 8 /\ Len(boot.phrase) >= 12
  /\ last.op = "login" /\ last.arg = boot.master /\ last.ok /\ LoggedIn

\* C8: the catalog ListAllPasswords shows holds exactly the record files
\* that decrypt under the session password, one entry each, whatever other
\* files the store holds; listing returns no error; no entry is the
\* validation key or lies under .checker.
C8_CatalogTolerance ==
  /\ last.op = "list" => (last.ok /\ last.err = "nil")
  /\ (last.op = "list" \/ pc \in {"List", "Detail", "Confirm"}) =>
        /\ Listed = Decryptable
        /\ Len(entries) = Cardinality(Decryptable)
        /\ \A i \in 1..Len(entries) :
             /\ entries[i].Filename # CheckerInit
             /\ entries[i].Filename # InitName
             /\ ~Contains(entries[i].Filename, CheckerDir)

C8_Witness ==
  /\ last.op = "list" /\ pc = "List"
  /\ Len(entries) >= 1
  /\ Cardinality(RootNames(files) \ Decryptable) = 1

\* C9: whatever the number of failed attempts so far, a login attempt
\* changes no file; with a passphrase that does not open the
\* ValidationRecord it leaves the process at the login prompt, not logged in
\* and not quitting; with the passphrase that opens it, it logs in.
C9_FailedLoginRetries ==
  [][\A typed \in LoginInputs :
       LoginSubmit(typed, "ok")
       => /\ files' = files
          /\ IF Opens(files, TextInputValue(typed, PromptCharLimit))
             THEN LoggedIn' /\ pc' = "MainMenu" /\ last'.ok
             ELSE ~LoggedIn' /\ ~Quit' /\ pc' = "LoginPrompt" /\ ~last'.ok]_vars

C9_Witness ==
  last.op = "login" /\ last.ok /\ LoggedIn /\ last.after >= 2

\* C10: a failed login and a failed attempt to open an entry of the catalog
\* show the user a message that carries no text of the underlying error.
C10_GenericFailure ==
  (last.op \in {"login", "view"} /\ ~last.ok) => last.detail = "nil"

\* C11: on an initialized store a login attempt (Enter with a right or a
\* wrong passphrase, with the read of the ValidationRecord succeeding or
\* failing, or Esc) leaves the set of stored files and every stored blob
\* unchanged.
C11_LoginLeavesStore ==
  [][(pc = "LoginPrompt" /\ InitCheck) =>
       (DOMAIN files' = DOMAIN files /\ files' = files)]_vars

C11_Witness ==
  /\ InitCheck
  /\ RootNames(files) # {}
  /\ last.op = "login" /\ last.ok
  /\ last.after >= 1

\* two Data values hold the same record: the same strings and the same
\* instants (a time.Time read back from JSON has no monotonic clock reading)
SameRecord(a, b) ==
  /\ a.Password = b.Password /\ a.Username = b.Username
  /\ a.Email = b.Email /\ a.URL = b.URL
  /\ a.CreatedAt.sec = b.CreatedAt.sec /\ a.UpdatedAt.sec = b.UpdatedAt.sec

C13_DeserializationError ==
  /\ (last.op = "list" \/ pc \in {"List", "Detail", "Confirm"}) =>
       \A f \in Listed : f \in DOMAIN files => files[f].plain.valid
  /\ (last.op = "view" /\ FilePath(last.arg) \in DOMAIN files
        /\ ~files[FilePath(last.arg)].plain.valid) => ~last.ok

\* C14: a list shown to the user holds no entry whose file was deleted: the
\* file of every entry of the list exists, and after a deletion that
\* succeeded the deleted entry is not in the list.
C14_NoStaleEntries ==
  pc = "List" =>
    /\ Listed \subseteq DOMAIN files
    /\ (last.op = "delete" /\ last.ok) => FilePath(last.arg) \notin Listed

\* the label as the specification says Decode returns it: lower-cased, at
\* most 20 characters, characters outside [A-Za-z0-9-] shown as spaces
SanitizedLabel(label) ==
  LET n == IF Len(label) > 20 THEN 20 ELSE Len(label)
  IN  [i \in 1..n |->
         IF label[i] \in FilenameChars \ {"_"}
         THEN ToLowerChar(label[i]) ELSE " "]

\* C15: decoding the key that GenerateFilename made of a label at any
\* instant returns the sanitized label alone, without the timestamp.
C15_CodecRoundTrip ==
  last.op = "decoded" => last.out = SanitizedLabel(last.label)

\* the character classes the options ask for
RequestedClasses(opts) ==
  (IF opts.IncludeUppercase THEN {Range(uppercaseChars)} ELSE {})
    \cup (IF opts.IncludeLowercase THEN {Range(lowercaseChars)} ELSE {})
    \cup (IF opts.IncludeNumbers THEN {Range(numberChars)} ELSE {})
    \cup (IF opts.IncludeSymbols THEN {Range(symbolChars)} ELSE {})

\* C16: for a length in 8..64 and at least one class requested,
\* GeneratePassword returns without error a password of exactly that length,
\* made only of characters of the requested classes, with at least one
\* character of each requested class and, when exclusion is requested, none
\* of the characters 0 O 1 l I.
C16_GeneratorCoverage ==
  (last.op = "generated" /\ last.opts.Length \in 8..64
     /\ RequestedClasses(last.opts) # {}) =>
    /\ last.err = "nil"
    /\ Len(last.password) = last.opts.Length
    /\ \A i \in 1..Len(last.password) :
         \E class \in RequestedClasses(last.opts) : last.password[i] \in class
    /\ \A class \in RequestedClasses(last.opts) :
         \E i \in 1..Len(last.password) : last.password[i] \in class
    /\ last.opts.ExcludeAmbiguous =>
         \A i \in 1..Len(last.password) :
           last.password[i] \notin {"0", "O", "1", "l", "I"}

C16_Witness ==
  /\ last.op = "generated" /\ last.opts.Length = 64
  /\ Cardinality(RequestedClasses(last.opts)) = 4
  /\ last.opts.ExcludeAmbiguous
  /\ last.err = "nil" /\ Len(last.password) = 64
  /\ last.password[1] \notin Range(uppercaseChars)

\* C17: GeneratePassword returns a length error and no password for a
\* length below 8 or above 64, and a no-class error and no password for a
\* length in 8..64 with no character class requested.
C17_GeneratorErrors ==
  last.op = "generated" =>
    /\ (last.opts.Length < 8 \/ last.opts.Length > 64) =>
         (last.err = "length" /\ last.password = EmptyString)
    /\ (last.opts.Length \in 8..64 /\ RequestedClasses(last.opts) = {}) =>
         (last.err = "no_class" /\ last.password = EmptyString)

C17_Witness ==
  /\ last.op = "generated"
  /\ last.opts.Length = 65
  /\ RequestedClasses(last.opts) # {}
  /\ last.err = "length"

\* C18: every file of the store has a mode that grants neither read nor
\* write access to the group or to the others.
C18_OwnerOnlyFiles ==
  last.op = "mode" =>
    \A q \in DOMAIN last.modes : last.modes[q] \cap {"gr", "gw", "or", "ow"} = {}

\* C19: between operations a file exists at the validation key exactly when
\* a bootstrap has finished successfully, also after a bootstrap whose write
\* of the ValidationRecord failed and across a restart; so whenever the
\* store is reported initialized, the ValidationRecord opens under the
\* passphrase chosen at bootstrap.
C19_ValidationRecordIffBootstrapped ==
  /\ FileExists(files, ValidationPath) <=> boot.set
  /\ InitCheck => (boot.set /\ Opens(files, boot.master))

\* C20: a failed write of the ValidationRecord during bootstrap, or a
\* failed write in AddNewPassword, is shown to the user and the process
\* keeps running.
C20_StoreFailureKeepsRunning ==
  (last.op \in {"boot_phrase", "add"} /\ last.err = "write") =>
    /\ pc \notin {"Panicked", "Exited"}
    /\ last.msg \notin {"none", "panic"}

\* the outcomes of step 3 of ChangeMasterPassword failing
CriticalOutcomes == {"critical_cannot_decrypt", "critical_corrupted"}

\* C21: when step 3 of ChangeMasterPassword fails after the new
\* ValidationRecord was written, the call returns (false, error), which
\* differs from success (true, nil) and from "current password incorrect"
\* (false, nil), and the store holds exactly what step 2 wrote: nothing is
\* rolled back or written again.
C21_CriticalInconsistency ==
  [][RotateStep =>
       /\ last'.msg = "changed" => (last'.ok /\ last'.err = "nil")
       /\ last'.msg = "current_incorrect" => (~last'.ok /\ last'.err = "nil")
       /\ last'.msg \in CriticalOutcomes =>
            /\ ~last'.ok
            /\ last'.err # "nil"
            /\ files' =
                 EncryptPasswordAndWriteToFile(files, last'.arg2, CheckerInit,
                   [DecryptPasswordFromFile(files, last'.arg, CheckerInit,
                                            "ok").data
                      EXCEPT !.UpdatedAt = TimeNow(now)], "ok").fs]_vars

C21_Witness ==
  /\ last.op = "rotate" /\ last.msg = "critical_cannot_decrypt"
  /\ last.arg # last.arg2
  /\ Opens(files, last.arg2)
  /\ ~Opens(files, last.arg)

\* C22: after ChangeMasterPassword returns, the session password is the new
\* passphrase when steps 1 to 3 succeeded, and otherwise the value it had
\* before the call.
C22_SessionPassphraseAfterRotate ==
  [][RotateStep =>
       Password' = IF last'.msg = "changed" THEN last'.arg2 ELSE Password]_vars

C25_AddEntryValidation ==
  [][\A typedSite \in AddSiteInputs, typedPassword \in AddSecretInputs :
       AddNewPassword(typedSite, typedPassword, "ok") =>
         LET siteName == SanitizeInput(TextInputValue(typedSite, FormCharLimit))
             password == TextInputValue(typedPassword, FormCharLimit)
             key == FilePath(GenerateFilename(siteName, now))
         IN  IF siteName = EmptyString \/ password = EmptyString
             THEN /\ ~last'.ok /\ last'.err = "validation"
                  /\ ErrorMessage' = "site_and_password_required"
                  /\ files' = files
             ELSE /\ last'.ok /\ last'.err = "nil"
                  /\ DOMAIN files' = DOMAIN files \cup {key}
                  /\ \A q \in DOMAIN files \ {key} : files'[q] = files[q]
                  /\ files'[key].intact /\ files'[key].key = Password
                  /\ files'[key].plain.doc.Password = password]_vars

C25_Witness ==
  /\ last.op = "add" /\ last.err = "validation" /\ ~last.ok
  /\ RootNames(files) # {}

C27_DeleteOutcomes ==
  [][\A fileName \in ModeNames :
       StoreDelete(fileName, "ok") =>
         IF FilePath(fileName) \notin DOMAIN files
         THEN last'.err = "not_exist" /\ files' = files
         ELSE /\ last'.err = "nil"
              /\ DOMAIN files' = DOMAIN files \ {FilePath(fileName)}
              /\ \A q \in DOMAIN files' : files'[q] = files[q]]_vars

C27_Witness ==
  /\ last.op = "mode" /\ last.err = "not_exist"
  /\ DOMAIN files = {ValidationPath}

\* C28: a file leaves the store only in the confirmation dialog that the
\* detail view opened on a deletion request, for the entry shown, and only
\* by y/Y or by Enter/Space with the cursor on "Yes"; the dialog opens with
\* the cursor on "No"; Esc, Ctrl+C, n, N, and Enter or Space with the cursor
\* on "No", close it with the store unchanged.
C28_DeletionNeedsConfirmation ==
  [][/\ (pc = "Detail" /\ pc' = "Confirm") =>
          (last'.op = "delete_request" /\ last'.after = 0)
     /\ (\E q \in DOMAIN files : q \notin DOMAIN files') =>
          /\ pc = "Confirm" /\ last.op = "delete_request"
          /\ DOMAIN files \ DOMAIN files' = {FilePath(selected.Filename)}
          /\ \E key \in {"y", "Y", "enter", " "} :
               /\ ConfirmPress(key)
               /\ key \in {"enter", " "} => last.after = 1
     /\ \A key \in ConfirmKeys :
          (ConfirmPress(key)
             /\ (key \in {"esc", "ctrl+c", "n", "N"}
                   \/ (key \in {"enter", " "} /\ last.after = 0))) =>
            (files' = files /\ last'.op = "delete" /\ last'.err = "cancelled")]_vars

C28_Witness ==
  /\ last.op = "delete" /\ last.err = "cancelled" /\ ~last.ok
  /\ FilePath(last.arg) \in DOMAIN files
  /\ pc = "List"

\* the criteria of strength a password satisfies
SatisfiedCriteria(password) ==
  LET Has(class) == \E i \in 1..Len(password) : password[i] \in class
  IN  {c \in {"length8", "length12", "lower", "upper", "digit", "other"} :
         \/ c = "length8" /\ Len(password) >= 8
         \/ c = "length12" /\ Len(password) >= 12
         \/ c = "lower" /\ Has(Range(LowerChars))
         \/ c = "upper" /\ Has(Range(UpperChars))
         \/ c = "digit" /\ Has(Range(DigitChars))
         \/ c = "other" /\ \E i \in 1..Len(password) :
              password[i] \notin Range(LowerChars) \cup Range(UpperChars)
                                   \cup Range(DigitChars)}

\* C29: EvaluatePasswordStrength returns the number of satisfied criteria
\* (length >= 8, length >= 12, a lowercase letter, an uppercase letter, a
\* digit, a character that is neither letter nor digit), at most 4; the
\* score is in 0..4, the description is Very Weak, Weak, Fair, Good, Strong
\* for 0, 1, 2, 3, 4, and the score is 0 only for the empty password.
C29_StrengthScore ==
  last.op = "strength" =>
    LET n == Cardinality(SatisfiedCriteria(last.password))
    IN  /\ last.score = IF n < 4 THEN n ELSE 4
        /\ last.score \in 0..4
        /\ last.description =
             CASE last.score = 0 -> "Very Weak"
               [] last.score = 1 -> "Weak"
               [] last.score = 2 -> "Fair"
               [] last.score = 3 -> "Good"
               [] last.score = 4 -> "Strong"
        /\ last.score = 0 <=> last.password = EmptyString

C29_Witness ==
  /\ last.op = "strength" /\ last.score = 4 /\ last.description = "Strong"
  /\ Cardinality(SatisfiedCriteria(last.password)) = 6

\* C30: when InitPasswordFolder returns, the root directory and .checker
\* exist, InitCheck is true exactly when a file exists at the validation
\* key, and the files of the store are as they were; when the root can be
\* neither read nor created, the process ends before any prompt is shown.
C30_EnsureReady ==
  last.op = "ready" =>
    /\ ~last.fatal =>
         /\ last.root /\ last.checker
         /\ InitCheck <=> FileExists(files, ValidationPath)
         /\ files = last.before
         /\ pc \in {"LoginPrompt", "BootPassword"}
    /\ ~last.readable => (last.fatal /\ pc = "Fatal" /\ ~LoggedIn)

\* C31: "Change Master Password" selected in the main menu prints "coming
\* soon": the ValidationRecord, every record file and the session password
\* stay as they were and the main menu is shown again.
C31_ChangeMasterComingSoon ==
  [][(pc = "MainMenu" /\ now' = now /\ last'.op = "change_master") =>
       /\ last'.msg = "coming_soon"
       /\ files' = files
       /\ Password' = Password
       /\ InitCheck' = InitCheck /\ LoggedIn' = LoggedIn
       /\ pc' = "MainMenu"]_vars

C31_Witness ==
  /\ last.op = "change_master" /\ last.msg = "coming_soon"
  /\ pc = "MainMenu" /\ LoggedIn
  /\ Password # EmptyString
  /\ RootNames(files) # {}
  /\ FileExists(files, ValidationPath)

\* C32: in every call of ChangeMasterPassword the ValidationRecord is
\* written only when it opened under the current passphrase typed; the
\* verification of step 3 gives its verdict only when that write succeeded,
\* the file then being sealed under the new passphrase; and success is
\* reported only when the file opens under the new passphrase and holds the
\* phrase it held before.
C32_RotationOrdered ==
  [][RotateStep =>
       /\ files' # files => Opens(files, last'.arg)
       /\ last'.msg \in CriticalOutcomes \cup {"changed"} =>
            /\ Opens(files, last'.arg)
            /\ files'[ValidationPath].intact
            /\ files'[ValidationPath].key = last'.arg2
       /\ last'.msg = "changed" =>
            /\ Opens(files', last'.arg2)
            /\ StoredPhrase(files') = StoredPhrase(files)]_vars

C32_Witness ==
  /\ last.op = "rotate" /\ last.msg = "changed" /\ last.ok
  /\ last.arg # last.arg2
  /\ files[ValidationPath].key = last.arg2
  /\ StoredPhrase(files) = boot.phrase

\* C33: in every outcome of ChangeMasterPassword no file other than the
\* ValidationRecord is created, rewritten or deleted, and the
\* ValidationRecord keeps its secret phrase and its creation time: only its
\* modification time changes.
C33_RotationFrame ==
  [][RotateStep =>
       /\ DOMAIN files' = DOMAIN files
       /\ \A q \in DOMAIN files \ {ValidationPath} : files'[q] = files[q]
       /\ files[ValidationPath].intact =>
            /\ files'[ValidationPath].intact
            /\ \A field \in DOMAIN files[ValidationPath].plain.doc \ {"UpdatedAt"} :
                 files'[ValidationPath].plain.doc[field]
                   = files[ValidationPath].plain.doc[field]]_vars

\* C34: whatever site names are typed, AddNewPassword and the deletion of
\* a catalog entry never write, overwrite or delete the ValidationRecord
\* nor a file outside the store root: every file name AddNewPassword builds
\* is made of characters of [a-z0-9_-] only, a clean name of at most 20
\* characters, "_" and a timestamp of 15 characters; and the catalog never
\* holds the validation key.
C34_ValidationKeyReserved ==
  /\ boot.set =>
       /\ FileExists(files, ValidationPath)
       /\ files[ValidationPath].intact
       /\ files[ValidationPath].key = boot.master
       /\ StoredPhrase(files) = boot.phrase
  /\ \A q \in DOMAIN files \ {ValidationPath} :
       LET k == TrimSuffix(q, GpgExt)
       IN  /\ IsRootName(q) /\ HasSuffix(q, GpgExt)
           /\ \A i \in 1..Len(k) :
                k[i] \in Range(LowerChars) \cup Range(DigitChars) \cup {"_", "-"}
           /\ Len(k) >= 16 /\ Len(k) <= 20 + 1 + 15
           /\ k[Len(k) - 15] = "_"
  /\ ValidationPath \notin Listed
  /\ \A i \in 1..Len(entries) : entries[i].Filename # CheckerInit
  /\ pc \in {"Detail", "Confirm"} => selected.Filename # CheckerInit

C34_Witness ==
  /\ last.op = "delete" /\ last.ok
  /\ HasPrefix(last.arg, <<"_", "c", "h", "e", "c", "k", "e", "r", "_", "i", "n", "i", "t", "_">>)
  /\ FileExists(files, ValidationPath)
  /\ \E q \in RootNames(files) : Len(q) = 20 + 1 + 15 + 4

\* C35: within a process InitCheck changes only from false to true, and
\* only in the step of the bootstrap that sealed the ValidationRecord
\* successfully; once true it stays true through login, add, list, delete
\* and rotation.
C35_InitializedMonotonic ==
  [][pc \notin {"Exited", "Panicked"} =>
       /\ InitCheck => InitCheck'
       /\ (~InitCheck /\ InitCheck') =>
            /\ pc = "BootPhrase"
            /\ last'.op = "boot_phrase" /\ last'.ok
            /\ ~FileExists(files, ValidationPath)
            /\ FileExists(files', ValidationPath)
            /\ files'[ValidationPath].intact]_vars

C35_Witness ==
  /\ InitCheck /\ boot.set /\ rot.set
  /\ last.op = "delete" /\ last.ok
  /\ pc = "List"

\* C36: the change-password form is submitted only when the current
\* password is not empty, the new password has at least 8 characters and
\* the new password handed to the rotation equals the confirmation value.
C36_ConsistentSubmit ==
  [][\A typedCurrent \in FormCurrentInputs, typedNew \in FormNewInputs,
        typedConfirm \in FormConfirmInputs :
       ChangeMasterPassword(typedCurrent, typedNew, typedConfirm,
                            "ok", "ok", "ok") =>
         LET currentPass == TextInputValue(typedCurrent, ChangeCharLimit)
             newPass == TextInputValue(typedNew, ChangeCharLimit)
             confirmPass == TextInputValue(typedConfirm, ChangeCharLimit)
         IN  /\ currentPass # EmptyString
             /\ Len(newPass) >= 8
             /\ newPass = confirmPass
             /\ last'.arg = currentPass /\ last'.arg2 = newPass]_vars

\* C38: the passphrase that opens the ValidationRecord can be typed in full
\* at the login prompt.
C38_MasterFitsLoginPrompt ==
  (FileExists(files, ValidationPath) /\ files[ValidationPath].intact) =>
    LET master == files[ValidationPath].key
    IN  /\ TextInputValue(master, PromptCharLimit) = master
        /\ Opens(files, TextInputValue(master, PromptCharLimit))

\* the main menu loop is running: the session is authenticated and the
\* menu, add, list and delete are available
Authenticated ==
  LoggedIn /\ pc \in {"MainMenu", "List", "Detail", "Confirm"}

\* C37: the process becomes authenticated only in a step of the login
\* prompt in which the ValidationRecord opened under the value typed at
\* that prompt; the menu is never shown without LoggedIn; the step that
\* completes the bootstrap leaves the process unauthenticated at the login
\* prompt; and Esc or Ctrl+C at the login prompt ends the process without
\* the menu being shown.
C37_AuthenticationGate ==
  [][/\ (pc' \in {"MainMenu", "List", "Detail", "Confirm"}) =>
          (LoggedIn' /\ ~Quit')
     /\ (~Authenticated /\ Authenticated') =>
          /\ pc = "LoginPrompt"
          /\ last'.op = "login" /\ last'.ok
          /\ Opens(files, last'.arg)
          /\ files' = files
     /\ (pc = "BootPhrase" /\ pc' # "BootPhrase") =>
          (~LoggedIn' /\ pc' \in {"LoginPrompt", "Exited", "Panicked"})
     /\ (pc = "LoginPrompt" /\ Quit') =>
          (~Authenticated' /\ pc' = "Exited")]_vars

C37_Witness ==
  /\ Authenticated /\ pc = "MainMenu" /\ ~Quit
  /\ last.op = "login" /\ last.ok /\ last.after = 0
  /\ Opens(files, last.arg)

\* C39: when the confirmation dialog of a deletion closes without
\* confirmation, the detail view of the same entry is shown again, and the
\* store is unchanged.
C39_CancelReturnsToDetail ==
  [][(pc = "Confirm" /\ now' = now /\ last'.op = "delete"
        /\ last'.err = "cancelled") =>
       /\ pc' = "Detail"
       /\ selected' = selected
       /\ files' = files]_vars

====
